---- MODULE Spec2Model ----
(***************************************************************************)
(* Method-stub synthesis of gopls (internal/lsp/source/stub.go).           *)
(*                                                                         *)
(* MethodStubActions goes through the diagnostics of a file; for each      *)
(* compiler diagnostic of a missing method it extracts a stub request      *)
(* (interface I, concrete type T) from the syntax at the diagnostic,       *)
(* computes with missingMethods the methods of I that T lacks, rewrites    *)
(* each missing method's signature for T's file (mightRenameSelector,      *)
(* mightRemoveSelector, mightAddSelector), queues the imports T's file     *)
(* needs and appends one code action.                                      *)
(*                                                                         *)
(* A signature is modelled by the sequence of its type references, in the  *)
(* order astutil.Apply visits them: a selector Q.N or a bare identifier N, *)
(* each with what the type information of its file records for it.         *)
(***************************************************************************)
EXTENDS Integers, Sequences, FiniteSets, TLC

VARIABLES
    pc,            \* position inside MethodStubActions
    diags,         \* the diagnostics handed in, each with the syntax at it
    di,            \* index of the diagnostic the loop is at
    ir,            \* the stub request of the diagnostic being processed
    world,         \* the snapshot and the request being processed
    mm,            \* what missingMethods returned: [missing, err, visited]
    addedImports,  \* ct.addedImports
    cur,           \* loop indices: entry of missing, method of it, node of it;
                   \* calls of the function astutil.Apply got, for this copy
    sig,           \* the copy of the signature being rewritten (n)
    stubs,         \* methodsBuffer: the stubs rendered so far
    actions,       \* the code actions returned (or being accumulated)
    err,           \* the error returned
    other,         \* the locals of a second call when it is not running
    Target,        \* impl.Package.Target of the interface's package and of
                   \* the packages it imports, by import path
    implementation,\* what impl.Implement returned
    inProgress,    \* Server.inProgress: token -> the run whose cancel it is
    inProgressMu,  \* Server.inProgressMu: who holds it, or "free"
    runs,          \* the runGenerate goroutines
    cancels,       \* the workDoneProgressCancel requests
    client,        \* what the server sent to the client for each run, in
                   \* order
    supportsWorkDoneProgress,  \* Server.supportsWorkDoneProgress
    inlineProgress \* runGenerate is the one that reports the progress
                   \* itself, without a progress writer

implVars == <<Target, implementation>>

serverVars == <<inProgress, inProgressMu, runs, cancels, client,
                supportsWorkDoneProgress, inlineProgress>>

vars == <<pc, diags, di, ir, world, mm, addedImports, cur, sig, stubs, actions,
          err, other, implVars, serverVars>>

----------------------------------------------------------------------------
(* Bounds *)

NumIfaces == 3     \* interfaces in a snapshot: 1 is the requested one
MaxDiags == 2      \* diagnostics handed to one call
MaxVersion == 2    \* versions of T's file: the last one is not edited
MaxSigLen == 1     \* type references in the requested interface's method
MaxRuns == 2       \* calls of runGenerate in the life of the server
MaxCancels == 1    \* workDoneProgressCancel requests
MaxWrites == 1     \* lines the runs of go generate write to standard error

----------------------------------------------------------------------------
(* Packages: import path and short name *)

PT == "example.com/pt"
PI == "example.com/pi"
PE == "example.com/pe"
PD == "example.com/pd"
NoPkg == "nil"

PkgName(path) ==
    CASE path = PT -> "pt"
      [] path = PI -> "pi"
      [] path = PE -> "pe"
      [] path = PD -> "pd"
      [] OTHER -> ""

IfaceIds == 1..NumIfaces

----------------------------------------------------------------------------
(* Errors *)

NoErr == [type |-> "none", op |-> "", name |-> "", have |-> "", want |-> ""]

MkErr(type) == [type |-> type, op |-> "", name |-> "", have |-> "", want |-> ""]

\* mismatchError{name, have, want}
MismatchError(name, have, want) ==
    [type |-> "mismatch", op |-> "", name |-> name, have |-> have, want |-> want]

\* fmt.Errorf("op: %w", err)
Wrap(op, e) == [e EXCEPT !.op = op]

----------------------------------------------------------------------------
(* AST nodes of a signature and what types.Info.Uses records for them *)

NoSig == "nosig"

\* the types of methods: two signatures that are not identical
S1 == "func(int)"
S2 == "func(string)"

\* a bare identifier of file `file`; obj is what Uses[ident] holds:
\* "none" (no entry: a parameter name), "basic" (a type name whose type is
\* not *types.Named), "named" (a named type owned by package `owner`,
\* NoPkg for the predeclared error)
Ident(file, name, obj, owner) ==
    [kind |-> "ident", file |-> file, q |-> "", path |-> NoPkg,
     name |-> name, obj |-> obj, owner |-> owner]

\* a selector q.name of file `file`: Uses[sel.X] is the PkgName q importing
\* `path`, Uses[sel.Sel] is a type name owned by `path`
Sel(file, q, path, name) ==
    [kind |-> "sel", file |-> file, q |-> q, path |-> path,
     name |-> name, obj |-> "named", owner |-> path]

\* an identifier or selector built by the rewrite: no package's Uses has it
NewIdent(name) == Ident(NoPkg, name, "none", NoPkg)

\* copyAST deep-clones the subtree; identifiers keep their Uses entries
CopyAST(n) == n

----------------------------------------------------------------------------
(* concreteType *)

\* a lookup that forgets the pointer-method set
doesNotHaveMethodValueOnly(ct, name) ==
    ct.tms[name] = NoSig

\* ct.tms.Lookup(ct.pkg, name) == nil && ct.pms.Lookup(ct.pkg, name) == nil
doesNotHaveMethod(ct, name) ==
    ct.tms[name] = NoSig /\ ct.pms[name] = NoSig

\* the value-method set first, else the pointer-method set
getMethodSelection(ct, name) ==
    IF ct.tms[name] # NoSig THEN ct.tms[name] ELSE ct.pms[name]

\* a test that forgets the dot import
isIgnoredImportBlankOnly(imp) ==
    imp.Name # "" /\ imp.Name = "_"

\* imp.Name != nil && (imp.Name.Name == "." || imp.Name.Name == "_");
\* a nil imp.Name is the empty Name
isIgnoredImport(imp) ==
    imp.Name # "" /\ (imp.Name = "." \/ imp.Name = "_")

\* an addImport that appends without looking at the list
addImportAlways(added, name, path) ==
    Append(added, [Name |-> name, Path |-> path])

\* ct.addImport(name, path) on the list `added`
addImport(added, name, path) ==
    IF \E i \in 1..Len(added) : added[i].Name = name /\ added[i].Path = path
    THEN added
    ELSE Append(added, [Name |-> name, Path |-> path])

\* a comparison that accepts every pair of signatures
IdenticalAlways(ifaceSig, implSig) == TRUE

\* types.Identical on two signatures
Identical(ifaceSig, implSig) == ifaceSig = implSig

----------------------------------------------------------------------------
(* missingMethods *)

\* ifacePkg.GetImport(path)
GetImportFails(w, ifacePkg, path) == <<ifacePkg, path>> \in w.failImport

\* a test that forgets the visited map
recordsMissingUnvisited(ct, name, visited) ==
    doesNotHaveMethod(ct, name)

\* the test of lines 377-378: T lacks the method and no entry lists it yet
recordsMissing(ct, name, visited) ==
    doesNotHaveMethod(ct, name) /\ name \notin visited

\* the loop over iface.ExplicitMethod(i), from method i on; acc is mi.missing
RECURSIVE explicitMethods(_, _, _, _, _)
explicitMethods(ct, methods, i, acc, visited) ==
    IF i > Len(methods)
    THEN [missing |-> acc, err |-> NoErr, visited |-> visited]
    ELSE LET method == methods[i]
             rec == recordsMissing(ct, method.name, visited)
             acc2 == IF rec THEN Append(acc, method) ELSE acc
             vis2 == IF rec THEN visited \cup {method.name} ELSE visited
             sel == getMethodSelection(ct, method.name)
         IN  IF sel # NoSig /\ ~Identical(method.sig, sel)
             THEN [missing |-> <<>>,
                   err |-> MismatchError(method.name, sel, method.sig),
                   visited |-> vis2]
             ELSE explicitMethods(ct, methods, i + 1, acc2, vis2)

RECURSIVE missingMethods(_, _, _, _)
RECURSIVE embeddedLoop(_, _, _, _, _, _)

\* a loop that puts the entries of an embedded interface before those of
\* the ones embedded ahead of it
embeddedLoopReversed(w, id, ifacePkg, i, acc, visited) ==
    LET embeds == w.ifaces[id].embeds IN
    IF i > Len(embeds)
    THEN [missing |-> acc, err |-> NoErr, visited |-> visited]
    ELSE LET eiface == embeds[i]
             epath == w.ifaces[eiface].pkg
         IN  IF epath # ifacePkg /\ GetImportFails(w, ifacePkg, epath)
             THEN [missing |-> <<>>, err |-> MkErr("getimport"),
                   visited |-> visited]
             ELSE LET em == missingMethods(w, eiface, epath, visited) IN
                  IF em.err # NoErr
                  THEN [missing |-> <<>>, err |-> em.err,
                        visited |-> em.visited]
                  ELSE embeddedLoop(w, id, ifacePkg, i + 1,
                                    em.missing \o acc, em.visited)

\* the loop over iface.Embedded(i), from embedded i on
embeddedLoop(w, id, ifacePkg, i, acc, visited) ==
    LET embeds == w.ifaces[id].embeds IN
    IF i > Len(embeds)
    THEN [missing |-> acc, err |-> NoErr, visited |-> visited]
    ELSE LET eiface == embeds[i]
             epath == w.ifaces[eiface].pkg
         IN  IF epath # ifacePkg /\ GetImportFails(w, ifacePkg, epath)
             THEN [missing |-> <<>>, err |-> MkErr("getimport"),
                   visited |-> visited]
             ELSE LET em == missingMethods(w, eiface, epath, visited) IN
                  IF em.err # NoErr
                  THEN [missing |-> <<>>, err |-> em.err,
                        visited |-> em.visited]
                  ELSE embeddedLoop(w, id, ifacePkg, i + 1,
                                    acc \o em.missing, em.visited)

\* missingMethods(ctx, snapshot, ct, ifaceObj, ifacePkg, visited): the
\* entries, the error and the visited map as the call leaves it
missingMethods(w, id, ifacePkg, visited) ==
    IF ~w.ifaces[id].isIface
    THEN [missing |-> <<>>, err |-> MkErr("notinterface"), visited |-> visited]
    ELSE LET em == embeddedLoop(w, id, ifacePkg, 1, <<>>, visited) IN
         IF em.err # NoErr THEN em
         ELSE IF id \in w.failFile
         THEN [missing |-> <<>>, err |-> Wrap("getFile", MkErr("getfile")),
               visited |-> em.visited]
         ELSE LET ex == explicitMethods(w.ct, w.ifaces[id].methods, 1, <<>>,
                                        em.visited)
              IN  IF ex.err # NoErr THEN ex
                  ELSE [missing |->
                            IF Len(ex.missing) > 0
                            THEN Append(em.missing,
                                        [iface |-> id, pkg |-> ifacePkg,
                                         missing |-> ex.missing])
                            ELSE em.missing,
                        err |-> NoErr,
                        visited |-> ex.visited]

----------------------------------------------------------------------------
(* Signature rewrite *)

\* the position of the first import of `path` in ct.file.Imports that is not
\* ignored, 0 when there is none (the loops of lines 232-242 and 292-301)
firstImport(ct, path) ==
    LET found == {i \in 1..Len(ct.imports) :
                     ct.imports[i].Path = path /\ ~isIgnoredImport(ct.imports[i])}
    IN  IF found = {} THEN 0
        ELSE CHOOSE i \in found : \A j \in found : i <= j

\* ifacePkg.GetTypesInfo().Uses[ident]: only the package of the node's own
\* file has an entry for it
Uses(ifacePkg, node) ==
    IF ifacePkg = node.file THEN node.obj ELSE "none"

\* a rename that queues the import without the interface file's alias
mightRenameSelectorNoAlias(sel, ifacePkg, ct, added) ==
    IF ifacePkg # sel.file
    THEN [node |-> sel, added |-> added, ret |-> FALSE]
    ELSE LET pkg == sel.path
             i == firstImport(ct, pkg)
             imp == ct.imports[i]
         IN  IF i # 0
             THEN [node |-> [sel EXCEPT !.q =
                                IF imp.Name # "" /\ imp.Name # PkgName(pkg)
                                THEN imp.Name ELSE PkgName(pkg)],
                   added |-> added, ret |-> FALSE]
             ELSE IF pkg = ct.pkg
             THEN [node |-> sel, added |-> added, ret |-> FALSE]
             ELSE [node |-> sel, added |-> addImport(added, "", pkg),
                   ret |-> FALSE]

\* mightRenameSelector(ctx, c, sel, ifacePkg, ct): the selector afterwards,
\* ct.addedImports afterwards and the value returned
mightRenameSelector(sel, ifacePkg, ct, added) ==
    IF ifacePkg # sel.file
    THEN [node |-> sel, added |-> added, ret |-> FALSE]
    ELSE LET pkg == sel.path
             i == firstImport(ct, pkg)
             imp == ct.imports[i]
         IN  IF i # 0
             THEN [node |-> [sel EXCEPT !.q =
                                IF imp.Name # "" /\ imp.Name # PkgName(pkg)
                                THEN imp.Name ELSE PkgName(pkg)],
                   added |-> added, ret |-> FALSE]
             ELSE IF pkg = ct.pkg
             THEN [node |-> sel, added |-> added, ret |-> FALSE]
             ELSE [node |-> sel,
                   added |-> addImport(added,
                                IF sel.q # PkgName(pkg) THEN sel.q ELSE "",
                                pkg),
                   ret |-> FALSE]

\* a removal that never replaces the selector
mightRemoveSelectorNever(sel, ifacePkg, implPath) ==
    [node |-> sel, ret |-> FALSE]

\* mightRemoveSelector(ctx, c, sel, ifacePkg, implPath)
mightRemoveSelector(sel, ifacePkg, implPath) ==
    IF Uses(ifacePkg, sel) = "none" \/ sel.owner = NoPkg
    THEN [node |-> sel, ret |-> FALSE]
    ELSE IF sel.owner = implPath
    THEN [node |-> Ident(sel.file, sel.name, sel.obj, sel.owner), ret |-> FALSE]
    ELSE [node |-> sel, ret |-> FALSE]

\* mightAddSelector(c, ident, ifacePkg, ct)
mightAddSelector(ident, ifacePkg, ct, added) ==
    IF Uses(ifacePkg, ident) # "named" \/ ident.owner = NoPkg
    THEN [node |-> ident, added |-> added, ret |-> FALSE]
    ELSE LET pkg == ident.owner
             i == firstImport(ct, pkg)
             missingImport == i = 0
             pkgName == IF i # 0 /\ ct.imports[i].Name # ""
                        THEN ct.imports[i].Name ELSE PkgName(pkg)
             isNotImportingDestination == pkg # ct.pkg
             isLocalDeclaration == pkg = ifacePkg /\ pkg # ct.pkg
             isDotImport == pkg # ifacePkg /\ pkg # ct.pkg
         IN  [node |-> IF isLocalDeclaration \/ isDotImport
                       THEN [kind |-> "sel", file |-> ident.file, q |-> pkgName,
                             path |-> NoPkg, name |-> ident.name,
                             obj |-> ident.obj, owner |-> ident.owner]
                       ELSE ident,
              added |-> IF missingImport /\ isNotImportingDestination
                        THEN addImport(added, "", pkg) ELSE added,
              ret |-> FALSE]

\* a function that lets the walk go on below a selector
applyFuncDescends(node, miPkg, ifacePkg, ct, added) ==
    IF node.kind = "sel"
    THEN LET renamed == mightRenameSelector(node, miPkg, ct, added)
             removed == mightRemoveSelector(renamed.node, miPkg, ct.pkg)
         IN  [node |-> removed.node, added |-> renamed.added, ret |-> TRUE]
    ELSE mightAddSelector(node, ifacePkg, ct, added)

\* the function MethodStubActions hands to astutil.Apply (lines 85-97), on a
\* node of an entry whose package is miPkg, for the request's ifacePkg
applyFunc(node, miPkg, ifacePkg, ct, added) ==
    IF node.kind = "sel"
    THEN LET renamed == mightRenameSelector(node, miPkg, ct, added)
             removed == mightRemoveSelector(renamed.node, miPkg, ct.pkg)
         IN  [node |-> removed.node, added |-> renamed.added,
              ret |-> removed.ret \/ renamed.ret]
    ELSE mightAddSelector(node, ifacePkg, ct, added)

\* astutil.Apply at one type reference of the copy: the function is called
\* on the node, before its children; the children of the node are walked
\* only when the function returned true. An identifier has none; those of
\* a selector are its qualifier, for which Uses holds a package name, and
\* the selected name, which the function hands to mightAddSelector: a
\* replacement of it by a selector has no place in the field Sel
apply(node, miPkg, ifacePkg, ct, added) ==
    LET r == applyFunc(node, miPkg, ifacePkg, ct, added) IN
    IF ~(r.ret /\ node.kind = "sel")
    THEN [node |-> r.node, added |-> r.added, calls |-> 1, panic |-> FALSE]
    ELSE LET s == mightAddSelector(Ident(node.file, node.name, node.obj,
                                         node.owner),
                                   ifacePkg, ct, r.added)
         IN  [node |-> r.node, added |-> s.added, calls |-> 3,
              panic |-> s.node.kind = "sel"]

----------------------------------------------------------------------------
(* Diagnostics and the stub request *)

\* a message is the sequence of its words: strings.Contains
Contains(msg, sub) ==
    \E i \in 0..(Len(msg) - Len(sub)) : SubSeq(msg, i + 1, i + Len(sub)) = sub

\* strings.HasPrefix
HasPrefix(msg, prefix) ==
    Len(msg) >= Len(prefix) /\ SubSeq(msg, 1, Len(prefix)) = prefix

\* a test that forgets the source of the diagnostic
isMissingMethodErrAnySource(d) ==
    Contains(d.Message, <<"missing", "method">>)

isMissingMethodErr(d) ==
    d.Source = "compiler" /\ Contains(d.Message, <<"missing", "method">>)

isConversionErr(d) ==
    d.Source = "compiler" /\ HasPrefix(d.Message, <<"cannot", "convert">>)

NoObj == "nil"

\* the nil *stubRequest
NoRequest ==
    [kind |-> "nil", ifacePkg |-> NoPkg, ifaceObj |-> NoObj,
     concretePkg |-> NoPkg, concreteObj |-> NoObj, pointer |-> FALSE]

\* a nil dereference while the request is extracted
Panicked == [NoRequest EXCEPT !.kind = "panic"]

\* the path has a *ast.ValueSpec
isVariableDeclaration(nodes) ==
    \E i \in 1..Len(nodes) : nodes[i] = "ValueSpec"

\* the path has a *ast.ReturnStmt
isReturnStatement(nodes) ==
    \E i \in 1..Len(nodes) : nodes[i] = "ReturnStmt"

\* the walk of inspectNode (lines 542-568) over the identifiers of the node
\* that Uses has an entry for, in the order ast.Inspect meets them, from the
\* i-th on; returning false at an identifier prunes nothing, so a later type
\* name replaces an earlier one
RECURSIVE inspectNode(_, _, _, _, _)
inspectNode(w, pkg, idents, i, acc) ==
    IF i > Len(idents) THEN acc
    ELSE LET obj == idents[i] IN
         IF obj.obj # "TypeName"
         THEN inspectNode(w, pkg, idents, i + 1, acc)
         ELSE IF obj.pkg = NoPkg
         THEN [acc EXCEPT !.panic = TRUE]
         ELSE IF obj.pkg # pkg /\ GetImportFails(w, pkg, obj.pkg)
         THEN inspectNode(w, pkg, idents, i + 1,
                          [acc EXCEPT !.nodePkg = NoPkg])
         ELSE inspectNode(w, pkg, idents, i + 1,
                          [nodeObj |-> obj.name, nodePkg |-> obj.pkg,
                           panic |-> FALSE])

\* a flag that looks for the address-of operator only
pointerOfAmpOnly(vs) == vs.amp

\* lines 584-595: the initialiser has a unary & or a star expression
pointerOf(vs) == vs.amp \/ vs.star

\* fromValueSpec(vs, pkg, pos)
fromValueSpec(w, site) ==
    LET vs == site.vs
        start == [nodeObj |-> NoObj, nodePkg |-> NoPkg, panic |-> FALSE]
    IN  IF ~vs.typed /\ ~vs.call
        THEN Panicked
        ELSE LET iface == inspectNode(w, site.pkg,
                                      IF vs.typed THEN vs.Type ELSE vs.Fun,
                                      1, start)
                 concrete == inspectNode(w, site.pkg, vs.Value, 1, start)
             IN  IF iface.panic THEN Panicked
                 ELSE IF iface.nodeObj = NoObj \/ iface.nodePkg = NoPkg
                 THEN NoRequest
                 ELSE IF concrete.panic THEN Panicked
                 ELSE IF concrete.nodeObj = NoObj \/ concrete.nodePkg = NoPkg
                 THEN NoRequest
                 ELSE [kind |-> "request",
                       ifacePkg |-> iface.nodePkg,
                       ifaceObj |-> iface.nodeObj,
                       concretePkg |-> concrete.nodePkg,
                       concreteObj |-> concrete.nodeObj,
                       pointer |-> pointerOf(vs)]

\* getReturnIndex(rs, pos), from result idx on
RECURSIVE getReturnIndex(_, _, _)
getReturnIndex(results, pos, idx) ==
    IF idx > Len(results)
    THEN [idx |-> -1, err |-> MkErr("pos not within return statement bounds")]
    ELSE IF pos >= results[idx].Pos /\ pos <= results[idx].End
    THEN [idx |-> idx, err |-> NoErr]
    ELSE getReturnIndex(results, pos, idx + 1)

\* the walk of lines 477-503 over the identifiers of the result expression
RECURSIVE inspectResult(_, _, _, _, _)
inspectResult(w, pkg, idents, i, acc) ==
    IF i > Len(idents) THEN acc
    ELSE LET obj == idents[i] IN
         IF obj.pkg = NoPkg
         THEN [acc EXCEPT !.panic = TRUE]
         ELSE IF obj.pkg # pkg /\ GetImportFails(w, pkg, obj.pkg)
         THEN inspectResult(w, pkg, idents, i + 1, acc)
         ELSE IF obj.obj # "TypeName"
         THEN inspectResult(w, pkg, idents, i + 1, acc)
         ELSE inspectResult(w, pkg, idents, i + 1,
                            [nodeObj |-> obj.name, nodePkg |-> obj.pkg,
                             panic |-> FALSE])

\* getRequestFromReturn(pos, path, rs, pkg): the request and the error
getRequestFromReturn(w, site) ==
    LET r == getReturnIndex(site.rs, site.pos, 1)
        start == [nodeObj |-> NoObj, nodePkg |-> NoPkg, panic |-> FALSE]
    IN  IF r.err # NoErr THEN [req |-> NoRequest, err |-> r.err]
        ELSE LET n == site.rs[r.idx]
                 c == inspectResult(w, site.pkg, n.idents, 1, start)
                 result == site.fi.Results[r.idx]
             IN  IF n.kind \in {"MapType", "ArrayType"}
                 THEN [req |-> NoRequest, err |-> NoErr]
                 ELSE IF c.panic
                 THEN [req |-> Panicked, err |-> NoErr]
                 ELSE IF c.nodeObj = NoObj
                 THEN [req |-> NoRequest, err |-> NoErr]
                 ELSE IF ~site.fi.found
                 THEN [req |-> NoRequest,
                       err |-> MkErr("could not find function")]
                 ELSE IF ~result.named
                 THEN [req |-> NoRequest, err |-> NoErr]
                 ELSE IF result.pkg = NoPkg
                 THEN [req |-> Panicked, err |-> NoErr]
                 ELSE [req |->
                           [kind |-> "request",
                            ifacePkg |->
                                IF site.pkg # result.pkg
                                   /\ GetImportFails(w, site.pkg, result.pkg)
                                THEN NoPkg ELSE result.pkg,
                            ifaceObj |-> result.name,
                            concretePkg |-> c.nodePkg,
                            concreteObj |-> c.nodeObj,
                            pointer |-> FALSE],
                       err |-> NoErr]

\* an extractor that tries the return statement first
getImplementRequestReturnFirst(w, site) ==
    IF isReturnStatement(site.nodes)
    THEN getRequestFromReturn(w, site).req
    ELSE IF isVariableDeclaration(site.nodes)
    THEN fromValueSpec(w, site)
    ELSE NoRequest

\* getImplementRequest(nodes, pkg, pos)
getImplementRequest(w, site) ==
    IF isVariableDeclaration(site.nodes)
    THEN fromValueSpec(w, site)
    ELSE IF isReturnStatement(site.nodes)
    THEN getRequestFromReturn(w, site).req
    ELSE NoRequest

\* getIfaceName(pkg, ifacePkg, ifaceObj)
getIfaceName(pkg, ifacePkg, ifaceObj) ==
    IF pkg = ifacePkg THEN ifaceObj
    ELSE PkgName(ifacePkg) \o "." \o ifaceObj

----------------------------------------------------------------------------
(* MethodStubActions *)

\* the names of the method set of the interface `id`
RECURSIVE methodNames(_, _)
methodNames(w, id) ==
    {w.ifaces[id].methods[k].name : k \in 1..Len(w.ifaces[id].methods)}
    \cup UNION {methodNames(w, w.ifaces[id].embeds[k]) :
                   k \in 1..Len(w.ifaces[id].embeds)}

\* The bytes of T's file, in chunks: "p" the package clause, "T" and "U"
\* the head of a declaration, "}" its end, "\n" a line end, " " a blank
\* gofmt takes out. T's declaration is the first of the file.
FileSrc(k1, k2, tail) ==
    <<"p", "\n">> \o [i \in 1..k1 |-> " "] \o <<"T">>
    \o [i \in 1..k2 |-> " "] \o <<"}">> \o tail

\* what follows T's declaration: the end of the file or another declaration
Tails == {<<"\n">>, <<"\n", "U", "}", "\n">>}

\* the blanks ahead of T's declaration and inside it: up to
MaxBlanks == 2

\* a file gofmt leaves as it is
CanonicalSrc == FileSrc(0, 0, <<"\n">>)

\* format.Node of the parsed file: the bytes without the blanks
FormatNode(src) == SelectSeq(src, LAMBDA c : c # " ")

\* FileSet().Position(nodes[1].End()).Offset: the number of bytes of the
\* file as read up to and with the end of T's declaration
RECURSIVE EndOffset(_, _)
EndOffset(src, i) ==
    IF i > Len(src) THEN Len(src)
    ELSE IF src[i] = "}" THEN i ELSE EndOffset(src, i + 1)

\* parser.ParseFile accepts the bytes: every declaration is in one piece
ParseFile(bytes) ==
    LET b == FormatNode(bytes) IN
    \A i \in 1..Len(b) :
        b[i] \in {"T", "U"} => (i < Len(b) /\ b[i + 1] = "}")

\* methodsBuffer: the text of each stub and a line end
RECURSIVE methodsBuffer(_, _)
methodsBuffer(methods, k) ==
    IF k > Len(methods) THEN <<>>
    ELSE <<methods[k].Method, "\n">> \o methodsBuffer(methods, k + 1)

\* impl.go, lines 122-129: the splice into implPkg.Content, the bytes of
\* the file as read, at the offset in that file
spliceIntoContent(src, text) ==
    LET insertPos == EndOffset(src, 1) IN
    [panic |-> FALSE,
     buf |-> SubSeq(src, 1, insertPos) \o <<"\n">>
             \o text
             \o SubSeq(src, insertPos + 1, Len(src))]

\* lines 119-127: concreteSrc is the formatted file, insertPos the offset
\* in the file as read; concreteSrc[insertPos:] panics past the end
splice(src, text) ==
    LET concreteSrc == FormatNode(src)
        insertPos == EndOffset(src, 1)
    IN  IF insertPos > Len(concreteSrc)
        THEN [panic |-> TRUE, buf |-> <<>>]
        ELSE [panic |-> FALSE,
              buf |-> SubSeq(concreteSrc, 1, insertPos) \o <<"\n">>
                      \o text
                      \o SubSeq(concreteSrc, insertPos + 1, Len(concreteSrc))]

\* a ct that keeps the imports queued for the previous diagnostic
newConcreteTypeReused(w, r, old) ==
    [ct |-> IF r.concreteObj = w.ct.name THEN w.ct
            ELSE [pkg |-> w.ifaces[w.root].pkg, name |-> r.concreteObj,
                  tms |-> [n \in {"F", "G"} |->
                              IF n \in methodNames(w, w.root)
                              THEN S1 ELSE NoSig],
                  pms |-> [n \in {"F", "G"} |-> NoSig],
                  imports |-> <<>>, version |-> 1,
                  src |-> CanonicalSrc],
     addedImports |-> old]

\* lines 63-69: the ct of this diagnostic, for the request r; old is the
\* list of the previous diagnostic's ct, which the new ct does not get. The
\* concrete object is T, or the interface itself when the only type name of
\* the initialiser is the interface (a pointer to it has no methods)
newConcreteType(w, r, old) ==
    [ct |-> IF r.concreteObj = w.ct.name THEN w.ct
            ELSE [pkg |-> w.ifaces[w.root].pkg, name |-> r.concreteObj,
                  tms |-> [n \in {"F", "G"} |->
                              IF n \in methodNames(w, w.root)
                              THEN S1 ELSE NoSig],
                  pms |-> [n \in {"F", "G"} |-> NoSig],
                  imports |-> <<>>, version |-> 1,
                  src |-> CanonicalSrc],
     addedImports |-> <<>>]

\* a return that hands back the actions gathered so far with the error
FailKeepingActions(e) ==
    /\ err' = e
    /\ actions' = actions
    /\ pc' = "done"

\* return nil, err
Fail(e) ==
    /\ err' = e
    /\ actions' = <<>>
    /\ pc' = "done"

\* lines 44-46: a diagnostic that is neither kind is passed over
SkipDiagnostic ==
    /\ pc = "loop"
    /\ di <= Len(diags)
    /\ ~isMissingMethodErr(diags[di]) /\ ~isConversionErr(diags[di])
    /\ di' = di + 1
    /\ UNCHANGED <<pc, diags, ir, world, mm, addedImports, cur, sig, stubs,
                   actions, err>>
    /\ UNCHANGED <<other, implVars, serverVars>>

\* lines 47-69: parse the file, find the path at the diagnostic, extract the
\* request, find T's file and build ct
GetRequest ==
    /\ pc = "loop"
    /\ di <= Len(diags)
    /\ isMissingMethodErr(diags[di]) \/ isConversionErr(diags[di])
    /\ LET d == diags[di]
           r == getImplementRequest(d.snap, d.site)
           c == newConcreteType(d.snap, r, addedImports)
       IN  IF d.fault \in {"GetParsedFile", "getNodes"}
           THEN /\ Fail(Wrap(d.fault, MkErr(d.fault)))
                /\ UNCHANGED <<di, ir, world, addedImports, stubs>>
           ELSE IF r.kind = "panic"
           THEN /\ pc' = "panic"
                /\ UNCHANGED <<di, ir, world, addedImports, stubs, actions,
                               err>>
           ELSE IF r.kind = "nil"
           THEN /\ di' = di + 1
                /\ UNCHANGED <<pc, ir, world, addedImports, stubs, actions,
                               err>>
           ELSE IF d.fault = "getFile"
           THEN /\ Fail(Wrap("getFile(concrete)", MkErr(d.fault)))
                /\ UNCHANGED <<di, ir, world, addedImports, stubs>>
           ELSE /\ ir' = r
                /\ world' = [d.snap EXCEPT !.ifacePkg = r.ifacePkg,
                                           !.ct = c.ct]
                /\ addedImports' = c.addedImports
                /\ stubs' = <<>>
                /\ pc' = "start"
                /\ UNCHANGED <<di, actions, err>>
    /\ UNCHANGED <<diags, mm, cur, sig>>
    /\ UNCHANGED <<other, implVars, serverVars>>

\* lines 70-76: call missingMethods, return on an error or on an empty
\* result; a nil ifacePkg is dereferenced at the first embedded interface
ComputeMissing ==
    /\ pc = "start"
    /\ IF world.ifacePkg = NoPkg /\ world.ifaces[world.root].isIface
          /\ Len(world.ifaces[world.root].embeds) > 0
       THEN /\ pc' = "panic"
            /\ UNCHANGED <<mm, cur, sig, err, actions>>
       ELSE LET r == missingMethods(world, world.root, world.ifacePkg, {}) IN
            /\ mm' = r
            /\ IF r.err # NoErr
               THEN /\ Fail(Wrap("missingMethods", r.err))
                    /\ UNCHANGED <<cur, sig>>
               ELSE IF Len(r.missing) = 0
               THEN /\ Fail(NoErr)
                    /\ UNCHANGED <<cur, sig>>
               ELSE /\ pc' = "rewrite"
                    /\ cur' = [mi |-> 1, m |-> 1, n |-> 1, calls |-> 0]
                    /\ sig' = CopyAST(r.missing[1].missing[1].ast)
                    /\ UNCHANGED <<err, actions>>
    /\ UNCHANGED <<diags, di, ir, world, addedImports, stubs>>
    /\ UNCHANGED <<other, implVars, serverVars>>

\* lines 85-97: astutil.Apply reaches the next type reference of the copy;
\* the callees dereference the package they are given
RewriteNode ==
    /\ pc = "rewrite"
    /\ cur.n <= Len(sig)
    /\ IF \/ sig[cur.n].kind = "sel" /\ mm.missing[cur.mi].pkg = NoPkg
          \/ sig[cur.n].kind = "ident" /\ world.ifacePkg = NoPkg
       THEN /\ pc' = "panic"
            /\ UNCHANGED <<sig, addedImports, cur>>
       ELSE LET r == apply(sig[cur.n], mm.missing[cur.mi].pkg,
                           world.ifacePkg, world.ct, addedImports)
            IN  /\ sig' = [sig EXCEPT ![cur.n] = r.node]
                /\ addedImports' = r.added
                /\ cur' = [cur EXCEPT !.n = cur.n + 1,
                                      !.calls = cur.calls + r.calls]
                /\ pc' = IF r.panic THEN "panic" ELSE pc
    /\ UNCHANGED <<diags, di, ir, world, mm, stubs, actions, err>>
    /\ UNCHANGED <<other, implVars, serverVars>>

\* lines 98-117: format the rewritten signature, execute the template, go to
\* the next missing method
RenderStub ==
    /\ pc = "rewrite"
    /\ cur.n > Len(sig)
    /\ LET mi == mm.missing[cur.mi]
           m == mi.missing[cur.m]
           d == diags[di]
       IN  IF d.fault = "formatSig"
           THEN /\ Fail(Wrap("could not format function signature",
                             MkErr(d.fault)))
                /\ UNCHANGED <<stubs, cur, sig>>
           ELSE IF ir.ifacePkg = NoPkg
           THEN /\ pc' = "panic"
                /\ UNCHANGED <<stubs, cur, sig, actions, err>>
           ELSE IF d.fault = "template"
           THEN /\ Fail(Wrap("error executing method template",
                             MkErr(d.fault)))
                /\ UNCHANGED <<stubs, cur, sig>>
           ELSE /\ stubs' = Append(stubs,
                       [Method |-> m.name,
                        Concrete |-> IF ir.pointer
                                     THEN "*" \o ir.concreteObj
                                     ELSE ir.concreteObj,
                        Interface |-> getIfaceName(d.site.pkg, ir.ifacePkg,
                                                   ir.ifaceObj),
                        Signature |-> sig, iface |-> mi.iface,
                        src |-> m.ast])
                /\ IF cur.m < Len(mi.missing)
                   THEN /\ cur' = [mi |-> cur.mi, m |-> cur.m + 1, n |-> 1,
                                    calls |-> 0]
                        /\ sig' = CopyAST(mi.missing[cur.m + 1].ast)
                        /\ pc' = pc
                   ELSE IF cur.mi < Len(mm.missing)
                   THEN /\ cur' = [mi |-> cur.mi + 1, m |-> 1, n |-> 1,
                                    calls |-> 0]
                        /\ sig' = CopyAST(mm.missing[cur.mi + 1].missing[1].ast)
                        /\ pc' = pc
                   ELSE /\ pc' = "patch"
                        /\ UNCHANGED <<cur, sig>>
                /\ UNCHANGED <<actions, err>>
    /\ UNCHANGED <<diags, di, ir, world, mm, addedImports>>
    /\ UNCHANGED <<other, implVars, serverVars>>

\* a lookup that hands back the file the diagnostics were reported in
getFileOfDiagnostic(d, ct) ==
    [URI |-> d.site.pkg \o "/fh.go", Version |-> ct.version]

\* getFile(ctx, ir.concreteObj, snapshot) of line 59, in the snapshot of
\* the diagnostic d: the handle of the file that declares the object
getFile(d, ct) ==
    [URI |-> ct.pkg \o "/" \o ct.name \o ".go", Version |-> ct.version]

\* lines 153-156: the edits that turn the file as read into the formatted
\* new file
computeTextEdits(before, after) == [before |-> before, after |-> after]

\* the operations of lines 119-152 that can fail, with the text of the error
PatchFaults ==
    [formatFile |-> "error formatting concrete file",
     reparse |-> "could not reparse file",
     formatNew |-> "format.Node",
     GetParsedFileConcrete |-> "GetParsedFile(concrete)",
     computeTextEdits |-> "computeTextEdit"]

\* lines 119-171: splice the stubs after T's declaration, add the queued
\* imports, append the code action and go to the next diagnostic
Patch ==
    /\ pc = "patch"
    /\ LET d == diags[di]
           r == splice(world.ct.src, methodsBuffer(stubs, 1))
       IN
       IF d.fault = "formatFile"
       THEN /\ Fail(Wrap(PatchFaults[d.fault], MkErr(d.fault)))
            /\ UNCHANGED di
       ELSE IF r.panic
       THEN /\ pc' = "panic"
            /\ UNCHANGED <<di, actions, err>>
       ELSE IF ~ParseFile(r.buf)
       THEN /\ Fail(Wrap(PatchFaults["reparse"], MkErr("reparse")))
            /\ UNCHANGED di
       ELSE IF d.fault \in DOMAIN PatchFaults
       THEN /\ Fail(Wrap(PatchFaults[d.fault], MkErr(d.fault)))
            /\ UNCHANGED di
       ELSE /\ actions' = Append(actions,
                   [Title |-> "Implement " \o getIfaceName(d.site.pkg,
                                                 ir.ifacePkg, ir.ifaceObj),
                    Diagnostics |-> <<di>>,
                    Kind |-> "quickfix",
                    DocumentChanges |->
                        <<[TextDocument |-> getFile(d, world.ct),
                           Edits |-> computeTextEdits(world.ct.src,
                                                      FormatNode(r.buf))]>>,
                    Stubs |-> stubs,
                    Imports |-> addedImports])
            /\ di' = di + 1
            /\ pc' = "loop"
            /\ UNCHANGED err
    /\ UNCHANGED <<diags, ir, world, mm, addedImports, cur, sig, stubs>>
    /\ UNCHANGED <<other, implVars, serverVars>>

\* line 172: return actions, nil
ReturnActions ==
    /\ pc = "loop"
    /\ di > Len(diags)
    /\ pc' = "done"
    /\ UNCHANGED <<diags, di, ir, world, mm, addedImports, cur, sig, stubs,
                   actions, err>>
    /\ UNCHANGED <<other, implVars, serverVars>>

Next ==
    \/ SkipDiagnostic
    \/ GetRequest
    \/ ComputeMissing
    \/ RewriteNode
    \/ RenderStub
    \/ Patch
    \/ ReturnActions

----------------------------------------------------------------------------
(* The inputs: snapshots and requests *)

\* sequences over S of at most two members, none repeated
UpToTwo(S) ==
    {<<>>} \cup {<<a>> : a \in S}
           \cup {<<p[1], p[2]>> : p \in {q \in S \X S : q[1] # q[2]}}

\* sequences over S of length 0..n
RECURSIVE SeqsUpTo(_, _)
SeqsUpTo(S, n) ==
    IF n = 0 THEN {<<>>}
    ELSE LET shorter == SeqsUpTo(S, n - 1) IN
         shorter \cup {Append(t, x) : t \in {u \in shorter : Len(u) = n - 1},
                                      x \in S}

\* T's method sets for one method name
MethodSetOf(opt) ==
    CASE opt = "absent"      -> [t |-> NoSig, p |-> NoSig]
      [] opt = "value"       -> [t |-> S1, p |-> S1]
      [] opt = "pointer"     -> [t |-> NoSig, p |-> S1]
      [] opt = "valuediff"   -> [t |-> S2, p |-> S2]
      [] opt = "pointerdiff" -> [t |-> NoSig, p |-> S2]

ConcreteType(pkg, optF, optG, imports) ==
    [pkg |-> pkg, name |-> "T",
     tms |-> [n \in {"F", "G"} |-> IF n = "F" THEN MethodSetOf(optF).t
                                              ELSE MethodSetOf(optG).t],
     pms |-> [n \in {"F", "G"} |-> IF n = "F" THEN MethodSetOf(optF).p
                                              ELSE MethodSetOf(optG).p],
     imports |-> imports, version |-> 1, src |-> CanonicalSrc]

\* every interface declares a method name with the same type
Method(name, ast) == [name |-> name, sig |-> S1, ast |-> ast]

Iface(pkg, embeds, methods) ==
    [pkg |-> pkg, isIface |-> TRUE, embeds |-> embeds, methods |-> methods]

World(ifaces, ct, failImport, failFile) ==
    [ifaces |-> ifaces, root |-> 1, ifacePkg |-> ifaces[1].pkg, ct |-> ct,
     failImport |-> failImport, failFile |-> failFile]

\* snapshots that vary the embedding graph, the explicit methods, T's method
\* sets and the lookups that fail; F takes a pd.N, G takes nothing
GraphMethod(name, file) ==
    IF name = "F" THEN Method("F", <<Sel(file, "pd", PD, "N")>>)
    ELSE Method("G", <<>>)

GraphEmbeds ==
    {e \in [IfaceIds -> UpToTwo(IfaceIds)] :
        \A i \in IfaceIds : \A k \in 1..Len(e[i]) : e[i][k] > i}

GraphNames ==
    {m \in [IfaceIds -> {<<>>, <<"F">>, <<"G">>, <<"F", "G">>}] :
        \A i \in IfaceIds : i > 1 => Len(m[i]) = 1}

GraphWorld(e, m, prov, optF, optG) ==
    World([i \in IfaceIds |->
              LET file == IF i = 1 \/ prov = "same" THEN PI ELSE PE IN
              Iface(file, e[i],
                    [k \in 1..Len(m[i]) |-> GraphMethod(m[i][k], file)])],
          ConcreteType(PT, optF, optG, <<>>),
          IF prov = "noimport" THEN {<<PI, PE>>} ELSE {},
          IF prov = "nofile" THEN IfaceIds \ {1} ELSE {})

\* a request whose interface side is not an interface (a conversion to a
\* named non-interface type)
NotInterfaceWorld(pkg) ==
    World([i \in IfaceIds |->
              [pkg |-> PI, isIface |-> FALSE, embeds |-> <<>>,
               methods |-> <<>>]],
          ConcreteType(pkg, "absent", "absent", <<>>), {}, {})

\* the type references a file of package `file` can hold
Nodes(file) ==
    {Ident(file, "x", "none", NoPkg),
     Ident(file, "int", "basic", NoPkg),
     Ident(file, "error", "named", NoPkg),
     Ident(file, "N", "named", file),
     Ident(file, "N", "named", PD),
     Sel(file, "pd", PD, "N"),
     Sel(file, "r", PD, "N")}
    \cup (IF file # PT
          THEN {Ident(file, "N", "named", PT), Sel(file, "pt", PT, "N")}
          ELSE {})

Import(name, path) == [Name |-> name, Path |-> path]

\* import blocks of T's file
ImportLists ==
    {<<>>,
     <<Import("", PD)>>,
     <<Import("m", PD)>>,
     <<Import("_", PD)>>,
     <<Import(".", PD)>>,
     <<Import("_", PD), Import("m", PD)>>,
     <<Import("m", PD), Import(".", PD)>>,
     <<Import("e", PE)>>,
     <<Import("i", PI), Import("", PE)>>,
     <<Import("", PI), Import("_", PE)>>}

\* snapshots that vary the signatures and the imports of T's file: I of
\* package pi declares F and embeds E, which declares G; T has neither
RewriteWorld(a1, p2, a2, ctPkg, imports) ==
    World([i \in IfaceIds |->
              IF i = 1 THEN Iface(PI, <<2>>, <<Method("F", a1)>>)
              ELSE IF i = 2 THEN Iface(p2, <<>>, <<Method("G", <<a2>>)>>)
              ELSE Iface(PI, <<>>, <<>>)],
          ConcreteType(ctPkg, "absent", "absent", imports), {}, {})

\* an identifier of the syntax at a diagnostic and its Uses entry
TypeUse(name, pkg) == [obj |-> "TypeName", name |-> name, pkg |-> pkg]
ObjUse(obj, name, pkg) == [obj |-> obj, name |-> name, pkg |-> pkg]

\* the messages of diagnostics, word by word
MissingMethodMsg == <<"T", "does", "not", "implement", "I", "missing",
                      "method", "F">>
ConvertMsg == <<"cannot", "convert", "T", "to", "I">>
OtherMsgs ==
    {<<"undefined", "x">>,
     <<"it", "cannot", "convert">>,
     <<"missing", "return">>,
     <<"method", "missing">>}

\* the *ast.ValueSpec of the path: its Type and the Fun of a call
\* initialiser as the identifiers Uses knows, the initialiser's identifiers
\* in visiting order, and whether it has a unary & or a star expression
ValueSpec(typed, type, call, fun, value, amp, star) ==
    [typed |-> typed, Type |-> type, call |-> call, Fun |-> fun,
     Value |-> value, amp |-> amp, star |-> star]

\* var _ I = T{}
PlainValueSpec(w) ==
    ValueSpec(TRUE, <<TypeUse("I", w.ifaces[w.root].pkg)>>, FALSE, <<>>,
              <<TypeUse(w.ct.name, w.ct.pkg)>>, FALSE, FALSE)

\* a result expression of a return statement
Result(pos, end, kind, idents) ==
    [Pos |-> pos, End |-> end, kind |-> kind, idents |-> idents]

\* return T{}, the keyword at 1..6 and the expression at 8..10
PlainReturn(w) == <<Result(8, 10, "expr", <<TypeUse(w.ct.name, w.ct.pkg)>>)>>

\* the enclosing function with its declared results
FuncInfo(found, results) == [found |-> found, Results |-> results]

NamedResult(name, pkg) == [named |-> TRUE, name |-> name, pkg |-> pkg]
UnnamedResult == [named |-> FALSE, name |-> NoObj, pkg |-> NoPkg]

PlainFunc(w) == FuncInfo(TRUE, <<NamedResult("I", w.ifaces[w.root].pkg)>>)

\* what getNodes and the package of the file give for a diagnostic
Site(pkg, nodes, vs, pos, rs, fi) ==
    [pkg |-> pkg, nodes |-> nodes, vs |-> vs, pos |-> pos, rs |-> rs,
     fi |-> fi]

ValuePath == <<"CompositeLit", "ValueSpec", "GenDecl", "File">>
ReturnPath == <<"CompositeLit", "ReturnStmt", "BlockStmt", "FuncDecl", "File">>

\* var _ I = T{} in T's package
PlainSite(w) ==
    Site(w.ct.pkg, ValuePath, PlainValueSpec(w), 9, PlainReturn(w),
         PlainFunc(w))

Diagnostic(source, message, site, snap, fault) ==
    [Source |-> source, Message |-> message, site |-> site, snap |-> snap,
     fault |-> fault]

PlainDiagnostic(w) ==
    Diagnostic("compiler", MissingMethodMsg, PlainSite(w), w, "none")

InitGraph ==
    \E e \in GraphEmbeds, m \in GraphNames,
       prov \in {"same", "foreign", "noimport", "nofile"},
       optF \in {"absent", "value", "pointer", "valuediff"},
       optG \in {"absent", "value", "pointerdiff"} :
        diags = <<PlainDiagnostic(GraphWorld(e, m, prov, optF, optG))>>

InitNotInterface ==
    \E pkg \in {PT, PI} : diags = <<PlainDiagnostic(NotInterfaceWorld(pkg))>>

\* a file does not import its own package
InitRewrite ==
    \E a1 \in SeqsUpTo(Nodes(PI), MaxSigLen), p2 \in {PI, PE},
       ctPkg \in {PT, PI} :
        \E a2 \in Nodes(p2),
           imports \in {l \in ImportLists :
                           \A k \in 1..Len(l) : l[k].Path # ctPkg} :
            diags = <<PlainDiagnostic(RewriteWorld(a1, p2, a2, ctPkg,
                                                   imports))>>

\* snapshots for the request extractor: I of package pi declares F, taking
\* nothing ("plain") or a pd.N ("sel"), or embeds E as well ("embed")
ExtractWorld(shape, ctPkg, optF, fails) ==
    World([i \in IfaceIds |->
              IF i = 1
              THEN Iface(PI, IF shape = "embed" THEN <<2>> ELSE <<>>,
                         <<Method("F", IF shape = "sel"
                                       THEN <<Sel(PI, "pd", PD, "N")>>
                                       ELSE <<>>)>>)
              ELSE IF i = 2 THEN Iface(PI, <<>>, <<Method("G", <<>>)>>)
              ELSE Iface(PI, <<>>, <<>>)],
          ConcreteType(ctPkg, optF, "absent", <<>>), fails, {})

\* the import lookups of package pkg that can fail
FailSets(pkg, ctPkg) == SUBSET {<<pkg, q>> : q \in {PI, ctPkg} \ {pkg}}

\* initialisers: T{}, a variable, int(0), new(T), a literal
Initialisers(pkg, ctPkg) ==
    {<<TypeUse("T", ctPkg)>>,
     <<ObjUse("Var", "t", pkg)>>,
     <<TypeUse("int", NoPkg)>>,
     <<ObjUse("Builtin", "new", NoPkg), TypeUse("T", ctPkg)>>,
     <<>>}

\* the value specs at a diagnostic of package pkg: var _ X = init with X
\* being I, error or an interface literal; var _ = fun(arg) with fun being
\* I, pi.I or a function; var _ = init with another initialiser than a call;
\* var _ I = init with T behind & or *
ValueSpecs(pkg, ctPkg) ==
    {ValueSpec(TRUE, ty, FALSE, <<>>, val, FALSE, FALSE) :
        ty \in {<<TypeUse("I", PI)>>, <<TypeUse("error", NoPkg)>>, <<>>},
        val \in Initialisers(pkg, ctPkg)}
    \cup {ValueSpec(FALSE, <<>>, TRUE, fun, fun \o arg, FALSE, FALSE) :
             fun \in {<<TypeUse("I", PI)>>,
                      <<ObjUse("PkgName", "pi", pkg), TypeUse("I", PI)>>,
                      <<ObjUse("Func", "f", pkg)>>},
             arg \in {<<TypeUse("T", ctPkg)>>, <<ObjUse("Var", "t", pkg)>>}}
    \cup {ValueSpec(FALSE, <<>>, FALSE, <<>>, <<TypeUse("T", ctPkg)>>,
                    FALSE, FALSE)}
    \cup {ValueSpec(TRUE, <<TypeUse("I", PI)>>, FALSE, <<>>,
                    <<TypeUse("T", ctPkg)>>, amp, star) :
             amp \in BOOLEAN, star \in BOOLEAN}

\* the results of a return statement: one expression at 8..10, or none
ReturnResults(pkg, ctPkg) ==
    {<<Result(8, 10, "expr", ids)>> :
        ids \in {<<TypeUse("T", ctPkg)>>,
                 <<>>,
                 <<ObjUse("Builtin", "new", NoPkg), TypeUse("T", ctPkg)>>,
                 <<ObjUse("Var", "t", pkg)>>,
                 <<ObjUse("PkgName", "pt", pkg), TypeUse("T", ctPkg)>>}}
    \cup {<<Result(8, 10, kind, <<TypeUse("T", ctPkg)>>)>> :
             kind \in {"MapType", "ArrayType"}}
    \cup {<<>>}

\* the enclosing function: not found, or with a result of type I, of an
\* interface literal, of the predeclared error
FuncInfos ==
    {FuncInfo(FALSE, <<UnnamedResult>>)}
    \cup {FuncInfo(TRUE, <<r>>) :
             r \in {NamedResult("I", PI), UnnamedResult,
                    NamedResult("error", NoPkg)}}

\* the packages a diagnostic is reported in and T's package
SitePkgs == {<<pkg, ctPkg>> : pkg \in {PT, PI, PD}, ctPkg \in {PT, PI}}

InitValueSpec ==
    \E pp \in SitePkgs :
        \E vs \in ValueSpecs(pp[1], pp[2]), fails \in FailSets(pp[1], pp[2]),
           optF \in {"absent", "value"} :
            LET w == ExtractWorld("sel", pp[2], optF, fails) IN
            diags = <<Diagnostic("compiler", MissingMethodMsg,
                          Site(pp[1], ValuePath, vs, 9, PlainReturn(w),
                               PlainFunc(w)),
                          w, "none")>>

InitReturn ==
    \E pp \in SitePkgs :
        \E rs \in ReturnResults(pp[1], pp[2]), fi \in FuncInfos,
           pos \in {3, 9}, fails \in FailSets(pp[1], pp[2]),
           shape \in {"plain", "sel", "embed"} :
            LET w == ExtractWorld(shape, pp[2], "absent", fails) IN
            diags = <<Diagnostic("compiler", MissingMethodMsg,
                          Site(pp[1], ReturnPath, PlainValueSpec(w), pos, rs,
                               fi),
                          w, "none")>>

\* the paths from the node at the diagnostic up to the file
Paths ==
    {ValuePath,
     ReturnPath,
     <<"CompositeLit", "ReturnStmt", "BlockStmt", "FuncLit", "ValueSpec",
       "GenDecl", "File">>,
     <<"CompositeLit", "ValueSpec", "GenDecl", "DeclStmt", "BlockStmt",
       "FuncLit", "ReturnStmt", "BlockStmt", "FuncDecl", "File">>,
     <<"CompositeLit", "AssignStmt", "BlockStmt", "FuncDecl", "File">>}

\* a site whose value spec and return statement both give a request, or
\* only one of them: var _ I = &T{} or var _ interface{...} = &T{}, and
\* return T{} with the position on the expression or on the keyword
InitPath ==
    \E nodes \in Paths, pos \in {3, 9}, typed \in BOOLEAN,
       source \in {"compiler", "vet"},
       msg \in {MissingMethodMsg, ConvertMsg} :
        LET w == ExtractWorld("sel", PT, "absent", {}) IN
        diags = <<Diagnostic(source, msg,
                      Site(PT, nodes,
                           ValueSpec(TRUE,
                                     IF typed THEN <<TypeUse("I", PI)>>
                                     ELSE <<>>,
                                     FALSE, <<>>, <<TypeUse("T", PT)>>,
                                     TRUE, FALSE),
                           pos, PlainReturn(w), PlainFunc(w)),
                      w, "none")>>

\* the operations of MethodStubActions, outside missingMethods, that
\* return an error the snapshot, the parser or the printer gave
Faults ==
    {"GetParsedFile", "getNodes", "getFile", "formatSig", "template",
     "formatFile", "reparse", "formatNew", "GetParsedFileConcrete",
     "computeTextEdits"}

\* I of pi declares F(pd.N) and embeds E of pi, which declares G(int); T of
\* pt has neither and its file imports nothing
QueuesPd ==
    RewriteWorld(<<Sel(PI, "pd", PD, "N")>>, PI,
                 Ident(PI, "int", "basic", NoPkg), PT, <<>>)

\* I of pi declares F(r.N), r importing pd, and embeds E of pi, which
\* declares G(pt.N); T of pi has neither and its file imports nothing
QueuesRAndPt ==
    RewriteWorld(<<Sel(PI, "r", PD, "N")>>, PI, Sel(PI, "pt", PT, "N"), PI,
                 <<>>)

\* the diagnostics of a file: var _ I = T{} lacking methods; var _ = I(T{})
\* lacking methods; var _ I = T{} lacking none; a missing method under an
\* assignment; and diagnostics of another source or with another message
DiagnosticKinds ==
    {PlainDiagnostic(QueuesPd),
     Diagnostic("compiler", ConvertMsg,
                Site(PI, ValuePath,
                     ValueSpec(FALSE, <<>>, TRUE, <<TypeUse("I", PI)>>,
                               <<TypeUse("I", PI), TypeUse("T", PI)>>,
                               FALSE, FALSE),
                     9, PlainReturn(QueuesRAndPt), PlainFunc(QueuesRAndPt)),
                QueuesRAndPt, "none"),
     PlainDiagnostic(ExtractWorld("plain", PT, "value", {})),
     Diagnostic("compiler", MissingMethodMsg,
                Site(PT, <<"CompositeLit", "AssignStmt", "BlockStmt",
                           "FuncDecl", "File">>,
                     PlainValueSpec(QueuesPd), 9, PlainReturn(QueuesPd),
                     PlainFunc(QueuesPd)),
                QueuesPd, "none")}
    \cup {Diagnostic("vet", msg, PlainSite(QueuesPd), QueuesPd, "none") :
             msg \in {MissingMethodMsg, ConvertMsg}}
    \cup {Diagnostic("compiler", msg, PlainSite(QueuesPd), QueuesPd, "none") :
             msg \in OtherMsgs}

InitDiagnostics ==
    diags \in SeqsUpTo(DiagnosticKinds, MaxDiags)

\* a diagnostic for which one operation fails, after diagnostics that get
\* an action or are passed over
InitFault ==
    \E before \in SeqsUpTo({PlainDiagnostic(QueuesPd),
                            Diagnostic("vet", MissingMethodMsg,
                                       PlainSite(QueuesPd), QueuesPd,
                                       "none")},
                           MaxDiags - 1),
       fault \in Faults :
        diags = Append(before,
                       [PlainDiagnostic(QueuesRAndPt) EXCEPT !.fault = fault])

\* a file with blanks gofmt would take out, ahead of T's declaration or
\* inside it, and T's declaration the last of the file or not
InitUnformatted ==
    \E k1 \in 0..MaxBlanks, k2 \in 0..MaxBlanks, tail \in Tails :
        diags = <<PlainDiagnostic(
                     [QueuesPd EXCEPT !.ct.src = FileSrc(k1, k2, tail)])>>

\* the state before the first diagnostic: no request, no snapshot looked at
NoWorld ==
    World([i \in IfaceIds |-> Iface(NoPkg, <<>>, <<>>)],
          ConcreteType(NoPkg, "absent", "absent", <<>>), {}, {})

\* the locals of MethodStubActions when it is called
InitLocals ==
    /\ pc = "loop"
    /\ di = 1
    /\ ir = NoRequest
    /\ world = NoWorld
    /\ mm = [missing |-> <<>>, err |-> NoErr, visited |-> {}]
    /\ addedImports = <<>>
    /\ cur = [mi |-> 0, m |-> 0, n |-> 0, calls |-> 0]
    /\ sig = <<>>
    /\ stubs = <<>>
    /\ actions = <<>>
    /\ err = NoErr

\* the same locals, of a call for the diagnostics ds that is not running
StartOfCall(ds) ==
    [pc |-> "loop", diags |-> ds, di |-> 1, ir |-> NoRequest,
     world |-> NoWorld,
     mm |-> [missing |-> <<>>, err |-> NoErr, visited |-> {}],
     addedImports |-> <<>>, cur |-> [mi |-> 0, m |-> 0, n |-> 0, calls |-> 0],
     sig |-> <<>>, stubs |-> <<>>, actions |-> <<>>, err |-> NoErr]

\* there is no second call
NoCall == [StartOfCall(<<>>) EXCEPT !.pc = "none"]

\* impl.Implement is not called
NoImplement ==
    /\ Target = [p \in {PI, PE} |-> ""]
    /\ implementation = "nil"

\* the server as constructed: nothing in progress, nothing sent
ServerIdle ==
    /\ inProgress = [t \in {} |-> 0]
    /\ inProgressMu = "free"
    /\ runs = <<>>
    /\ cancels = <<>>
    /\ client = <<>>
    /\ supportsWorkDoneProgress = FALSE
    /\ inlineProgress = FALSE

Init ==
    /\ \/ InitGraph
       \/ InitNotInterface
       \/ InitRewrite
       \/ InitValueSpec
       \/ InitReturn
       \/ InitPath
       \/ InitDiagnostics
       \/ InitFault
       \/ InitUnformatted
    /\ InitLocals
    /\ other = NoCall
    /\ NoImplement
    /\ ServerIdle

Spec == Init /\ [][Next]_vars

----------------------------------------------------------------------------
(* The code action applied: the stubs are in T's file and MethodStubActions
   is called again for the same diagnostic *)

\* T once the stubs of the action are in its file, each with the receiver
\* the template gave it and the type the interface gives the method: a
\* method with the receiver T is in both method sets, one with the receiver
\* *T in the pointer-method set; the file imports what was queued and has
\* the next version
applyStubs(ct, action) ==
    LET all == {action.Stubs[k].Method : k \in 1..Len(action.Stubs)}
        byValue == {action.Stubs[k].Method :
                       k \in {j \in 1..Len(action.Stubs) :
                                 action.Stubs[j].Concrete = ct.name}}
    IN  [ct EXCEPT
            !.tms = [n \in DOMAIN ct.tms |->
                        IF n \in byValue THEN S1 ELSE ct.tms[n]],
            !.pms = [n \in DOMAIN ct.pms |->
                        IF n \in all THEN S1 ELSE ct.pms[n]],
            !.imports = ct.imports \o action.Imports,
            !.version = ct.version + 1,
            !.src = action.DocumentChanges[1].Edits.after]

\* the client applies the one action returned for the one diagnostic and
\* asks again for the code actions of the diagnostic
ApplyEdit ==
    /\ pc = "done"
    /\ err = NoErr
    /\ Len(diags) = 1
    /\ Len(actions) = 1
    /\ diags[1].snap.ct.version < MaxVersion
    /\ diags' = <<[diags[1] EXCEPT
                      !.snap.ct = applyStubs(diags[1].snap.ct, actions[1])]>>
    /\ pc' = "loop"
    /\ di' = 1
    /\ ir' = NoRequest
    /\ world' = NoWorld
    /\ mm' = [missing |-> <<>>, err |-> NoErr, visited |-> {}]
    /\ addedImports' = <<>>
    /\ cur' = [mi |-> 0, m |-> 0, n |-> 0, calls |-> 0]
    /\ sig' = <<>>
    /\ stubs' = <<>>
    /\ actions' = <<>>
    /\ err' = NoErr
    /\ UNCHANGED <<other, implVars, serverVars>>

NextApplied == Next \/ ApplyEdit

SpecApplied == Init /\ [][NextApplied]_vars

----------------------------------------------------------------------------
(* Two calls of MethodStubActions at once: each has its own locals, ct
   among them, and both read the snapshot; the scheduler runs one of them
   at a time and can switch at every step *)

\* the diagnostics of the calls: two that get an action, with different
\* imports to queue, and one that is passed over
ParallelKinds ==
    {d \in DiagnosticKinds :
        \/ d.snap = QueuesRAndPt
        \/ d = PlainDiagnostic(QueuesPd)
        \/ d.Source = "vet" /\ d.Message = MissingMethodMsg}

InitParallel ==
    /\ diags \in SeqsUpTo(ParallelKinds, MaxDiags)
    /\ InitLocals
    /\ \E d \in {k \in ParallelKinds : k.Source = "compiler"} :
          other = StartOfCall(<<d>>)
    /\ NoImplement
    /\ ServerIdle

\* the running call is descheduled and the other one runs on
Yield ==
    /\ other.pc # "none"
    /\ other' = [pc |-> pc, diags |-> diags, di |-> di, ir |-> ir,
                 world |-> world, mm |-> mm, addedImports |-> addedImports,
                 cur |-> cur, sig |-> sig, stubs |-> stubs,
                 actions |-> actions, err |-> err]
    /\ pc' = other.pc
    /\ diags' = other.diags
    /\ di' = other.di
    /\ ir' = other.ir
    /\ world' = other.world
    /\ mm' = other.mm
    /\ addedImports' = other.addedImports
    /\ cur' = other.cur
    /\ sig' = other.sig
    /\ stubs' = other.stubs
    /\ actions' = other.actions
    /\ err' = other.err
    /\ UNCHANGED <<implVars, serverVars>>

NextParallel == Next \/ Yield

SpecParallel == InitParallel /\ [][NextParallel]_vars

----------------------------------------------------------------------------
(* impl.Implement (internal/impl/impl.go), which the command "implement"
   calls with the descriptor of the interface's package and that of T's
   package: the same synthesis on impl.Package descriptors, whose Target is
   the name of the type to look up in the package's scope *)

\* the name of the interface `id` in the scope of its package
IfaceName(id) == IF id = 1 THEN "I" ELSE "E" \o ToString(id)

\* pkg.Types.Scope().Lookup(name): the interface of that name in the
\* package, 0 for nil
Lookup(w, pkg, name) ==
    LET found == {i \in IfaceIds :
                     w.ifaces[i].pkg = pkg /\ IfaceName(i) = name}
    IN  IF found = {} THEN 0 ELSE CHOOSE i \in found : TRUE

RECURSIVE implMissingMethods(_, _, _, _)
RECURSIVE implEmbeddedLoop(_, _, _, _, _, _, _)

\* lines 371-386: the loop over iface.Embedded(i), from embedded i on, with
\* the Targets as they are so far
implEmbeddedLoop(w, id, ifacePkg, i, acc, visited, target) ==
    LET embeds == w.ifaces[id].embeds IN
    IF i > Len(embeds)
    THEN [missing |-> acc, err |-> NoErr, visited |-> visited,
          Target |-> target]
    ELSE LET eiface == embeds[i]
             epath == w.ifaces[eiface].pkg
             set == [target EXCEPT ![epath] = IfaceName(eiface)]
         IN  IF epath # ifacePkg /\ <<ifacePkg, epath>> \in w.failImport
             THEN [missing |-> <<>>, err |-> MkErr("missing dependency"),
                   visited |-> visited, Target |-> target]
             ELSE LET em == implMissingMethods(w, set, epath, visited) IN
                  IF em.err # NoErr
                  THEN [em EXCEPT !.missing = <<>>]
                  ELSE implEmbeddedLoop(w, id, ifacePkg, i + 1,
                                        acc \o em.missing, em.visited,
                                        em.Target)

\* missingMethods(ct, ifacePkg, visited) of impl.go: the entries, the
\* error, the visited map and the Targets as the call leaves them; the
\* explicit methods are gone through as in stub.go (lines 395-414)
implMissingMethods(w, target, ifacePkg, visited) ==
    LET id == Lookup(w, ifacePkg, target[ifacePkg]) IN
    IF id = 0
    THEN [missing |-> <<>>, err |-> MkErr("panic"), visited |-> visited,
          Target |-> target]
    ELSE IF ~w.ifaces[id].isIface
    THEN [missing |-> <<>>, err |-> MkErr("notinterface"),
          visited |-> visited, Target |-> target]
    ELSE LET em == implEmbeddedLoop(w, id, ifacePkg, 1, <<>>, visited,
                                    target)
         IN  IF em.err # NoErr THEN em
             ELSE IF id \in w.failFile
             THEN [missing |-> <<>>, err |-> MkErr("could not find ast.File"),
                   visited |-> em.visited, Target |-> em.Target]
             ELSE LET ex == explicitMethods(w.ct, w.ifaces[id].methods, 1,
                                            <<>>, em.visited)
                  IN  [missing |->
                           IF ex.err # NoErr THEN <<>>
                           ELSE IF Len(ex.missing) > 0
                           THEN Append(em.missing,
                                       [iface |-> id, missing |-> ex.missing])
                           ELSE em.missing,
                       err |-> ex.err,
                       visited |-> ex.visited,
                       Target |-> em.Target]

\* ct.hasImport(path): the first import of T's file that is not ignored,
\* else the first queued import of the path
hasImport(ct, added, path) ==
    LET i == firstImport(ct, path)
        queued == {k \in 1..Len(added) : added[k].Path = path}
    IN  IF i # 0 THEN [ok |-> TRUE, Name |-> ct.imports[i].Name]
        ELSE IF queued # {}
        THEN [ok |-> TRUE,
              Name |-> added[CHOOSE k \in queued :
                                 \A j \in queued : k <= j].Name]
        ELSE [ok |-> FALSE, Name |-> ""]

\* ct.addImport of impl.go: appended without a look at the list
implAddImport(added, name, path) ==
    Append(added, [Name |-> name, Path |-> path])

\* mightRenameSelector(c, sel, ifaceInfo, ct) of impl.go
implMightRenameSelector(sel, ifacePkg, ct, added) ==
    IF ifacePkg # sel.file
    THEN [node |-> sel, added |-> added, ret |-> FALSE]
    ELSE LET pkg == sel.path
             imp == hasImport(ct, added, pkg)
         IN  IF imp.ok
             THEN [node |-> [sel EXCEPT !.q =
                                IF imp.Name # "" /\ imp.Name # PkgName(pkg)
                                THEN imp.Name ELSE PkgName(pkg)],
                   added |-> added, ret |-> FALSE]
             ELSE IF pkg = ct.pkg
             THEN [node |-> sel, added |-> added, ret |-> FALSE]
             ELSE [node |-> sel,
                   added |-> implAddImport(added,
                                IF sel.q # PkgName(pkg) THEN sel.q ELSE "",
                                pkg),
                   ret |-> FALSE]

\* mightRemoveSelector(c, sel, ifacePkgInfo, implPath) of impl.go: obj.Pkg()
\* is called on whatever Uses holds, an entry or none
implMightRemoveSelector(sel, ifacePkg, implPath) ==
    IF Uses(ifacePkg, sel) = "none" \/ sel.owner = NoPkg
    THEN [node |-> sel, ret |-> FALSE, panic |-> TRUE]
    ELSE IF sel.owner = implPath
    THEN [node |-> Ident(sel.file, sel.name, sel.obj, sel.owner),
          ret |-> FALSE, panic |-> FALSE]
    ELSE [node |-> sel, ret |-> FALSE, panic |-> FALSE]

\* mightAddSelector(c, ident, ifacePkg, ct) of impl.go
implMightAddSelector(ident, ifacePkg, ct, added) ==
    IF Uses(ifacePkg, ident) # "named" \/ ident.owner = NoPkg
    THEN [node |-> ident, added |-> added, ret |-> FALSE]
    ELSE LET pkg == ident.owner
             imp == hasImport(ct, added, pkg)
             missingImport == ~imp.ok
             pkgName == IF imp.ok /\ imp.Name # ""
                        THEN imp.Name ELSE PkgName(pkg)
             isNotImportingDestination == pkg # ct.pkg
             isLocalDeclaration == pkg = ifacePkg /\ pkg # ct.pkg
             isDotImport == pkg # ifacePkg /\ pkg # ct.pkg
         IN  [node |-> IF isLocalDeclaration \/ isDotImport
                       THEN [kind |-> "sel", file |-> ident.file, q |-> pkgName,
                             path |-> NoPkg, name |-> ident.name,
                             obj |-> ident.obj, owner |-> ident.owner]
                       ELSE ident,
              added |-> IF missingImport /\ isNotImportingDestination
                        THEN implAddImport(added, "", pkg) ELSE added,
              ret |-> FALSE]

\* the function Implement hands to astutil.Apply (lines 92-104): every
\* callee gets the package of the requested interface
implApplyFunc(node, ifacePkg, ct, added) ==
    IF node.kind = "sel"
    THEN LET renamed == implMightRenameSelector(node, ifacePkg, ct, added)
             removed == implMightRemoveSelector(renamed.node, ifacePkg,
                                                ct.pkg)
         IN  [node |-> removed.node, added |-> renamed.added,
              ret |-> removed.ret \/ renamed.ret, panic |-> removed.panic]
    ELSE LET r == implMightAddSelector(node, ifacePkg, ct, added) IN
         [node |-> r.node, added |-> r.added, ret |-> r.ret,
          panic |-> FALSE]

\* astutil.Apply with that function on the nodes i.. of a copied signature
RECURSIVE implRewrite(_, _, _, _, _)
implRewrite(nodes, i, ifacePkg, ct, added) ==
    IF i > Len(nodes)
    THEN [sig |-> nodes, added |-> added, panic |-> FALSE]
    ELSE LET r == implApplyFunc(nodes[i], ifacePkg, ct, added) IN
         IF r.panic
         THEN [sig |-> nodes, added |-> r.added, panic |-> TRUE]
         ELSE implRewrite([nodes EXCEPT ![i] = r.node], i + 1, ifacePkg, ct,
                          r.added)

\* lines 84-121: the stubs of the methods from method j of entry k on;
\* iface was read from the Target before missingMethods ran
RECURSIVE implRender(_, _, _, _, _, _)
implRender(w, missing, k, j, methods, added) ==
    IF k > Len(missing)
    THEN [Methods |-> methods, added |-> added, panic |-> FALSE]
    ELSE IF j > Len(missing[k].missing)
    THEN implRender(w, missing, k + 1, 1, methods, added)
    ELSE LET m == missing[k].missing[j]
             r == implRewrite(CopyAST(m.ast), 1, w.ifacePkg, w.ct, added)
         IN  IF r.panic
             THEN [Methods |-> methods, added |-> r.added, panic |-> TRUE]
             ELSE implRender(w, missing, k, j + 1,
                             Append(methods,
                                    [Name |-> m.name,
                                     Implementer |-> w.ct.name,
                                     Interface |-> IfaceName(w.root),
                                     Signature |-> r.sig,
                                     iface |-> missing[k].iface,
                                     src |-> m.ast]),
                             r.added)

\* methodsBuffer of Implement: the text of each stub and a line end
RECURSIVE implMethodsBuffer(_, _)
implMethodsBuffer(methods, k) ==
    IF k > Len(methods) THEN <<>>
    ELSE <<methods[k].Name, "\n">> \o implMethodsBuffer(methods, k + 1)

\* return nil, err
implFail(e) ==
    /\ err' = e
    /\ implementation' = "nil"
    /\ pc' = "done"

\* lines 56-82: look both types up, build ct, call missingMethods, return on
\* an error or on an empty result
ImplementMissing ==
    /\ pc = "implement"
    /\ LET r == implMissingMethods(world, Target, world.ifacePkg, {}) IN
       IF Lookup(world, world.ifacePkg, Target[world.ifacePkg]) = 0
       THEN /\ implFail(MkErr("could not find interface declaration"))
            /\ UNCHANGED <<mm, Target>>
       ELSE IF world.ct.name = NoObj
       THEN /\ implFail(MkErr("could not find type declaration"))
            /\ UNCHANGED <<mm, Target>>
       ELSE /\ mm' = [missing |-> r.missing, err |-> r.err,
                      visited |-> r.visited]
            /\ Target' = r.Target
            /\ IF r.err # NoErr
               THEN implFail(r.err)
               ELSE IF Len(r.missing) = 0
               THEN implFail(NoErr)
               ELSE /\ pc' = "render"
                    /\ UNCHANGED <<err, implementation>>
    /\ UNCHANGED <<diags, di, ir, world, addedImports, cur, sig, stubs,
                   actions, other, serverVars>>

\* the operations of lines 83-142 that can fail
ImplementFaults ==
    {"could not format function signature",
     "error executing method template", "could not reparse file",
     "format.Node"}

\* lines 83-151: rewrite and render every missing method, splice the stubs
\* after T's declaration, add the queued imports and return the
\* Implementation
ImplementRender ==
    /\ pc = "render"
    /\ \E r \in {implRender(world, mm.missing, 1, 1, <<>>, <<>>)} :
       /\ addedImports' = r.added
       /\ stubs' = r.Methods
       /\ IF r.panic
          THEN /\ pc' = "panic"
               /\ UNCHANGED <<err, implementation>>
          ELSE \/ \E fault \in ImplementFaults : implFail(MkErr(fault))
               \/ /\ implementation' =
                        [File |-> world.ct.pkg \o "/" \o world.ct.name,
                         FileContent |->
                             FormatNode(spliceIntoContent(world.ct.src,
                                 implMethodsBuffer(r.Methods, 1)).buf),
                         Methods |-> r.Methods,
                         AddedImports |-> r.added]
                  /\ pc' = "done"
                  /\ UNCHANGED err
    /\ UNCHANGED <<diags, di, ir, world, mm, cur, sig, actions, other,
                   Target, serverVars>>

\* the requests of the command: the snapshots of the embedding graphs and
\* of the signatures, a type that is not an interface, and a T that is not
\* declared
InitImplement ==
    /\ pc = "implement"
    /\ \/ \E e \in GraphEmbeds, m \in GraphNames,
             prov \in {"same", "foreign", "noimport", "nofile"},
             optF \in {"absent", "valuediff"} :
              world = GraphWorld(e, m, prov, optF, "absent")
       \/ \E a1 \in Nodes(PI), p2 \in {PI, PE}, a2 \in Nodes(PE),
             imports \in ImportLists :
              world = RewriteWorld(<<a1>>, p2, a2, PT, imports)
       \/ world = NotInterfaceWorld(PT)
       \/ world = [QueuesPd EXCEPT !.ct.name = NoObj]
       \/ \E k1 \in 0..MaxBlanks, k2 \in 0..MaxBlanks, tail \in Tails :
              world = [QueuesPd EXCEPT !.ct.src = FileSrc(k1, k2, tail)]
    /\ \E name \in {"I", "J"} :
          Target = [p \in {PI, PE} |-> IF p = PI THEN name ELSE ""]
    /\ implementation = "nil"
    /\ diags = <<>>
    /\ di = 1
    /\ ir = NoRequest
    /\ mm = [missing |-> <<>>, err |-> NoErr, visited |-> {}]
    /\ addedImports = <<>>
    /\ cur = [mi |-> 0, m |-> 0, n |-> 0, calls |-> 0]
    /\ sig = <<>>
    /\ stubs = <<>>
    /\ actions = <<>>
    /\ err = NoErr
    /\ other = NoCall
    /\ ServerIdle

NextImplement == ImplementMissing \/ ImplementRender

SpecImplement == InitImplement /\ [][NextImplement]_vars

----------------------------------------------------------------------------
(* go generate: runGenerate, its progress writers and the request that
   cancels a run (internal/lsp/generate.go; workDoneProgressCancel) *)

stubVars == <<pc, diags, di, ir, world, mm, addedImports, cur, sig, stubs,
              actions, err, other>>

\* strconv.FormatInt(rand.Int63(), 10) of the i-th run: the 63-bit random
\* numbers of the runs of one server are taken to differ
Token(i) == ToString(i)

\* the goroutine of a run ("run") or of a request ("cancel"), as the holder
\* of the mutex
Holder(kind, i) == kind \o ToString(i)

\* what the client is sent
Msg(method, kind) == [method |-> method, kind |-> kind]
Progress(kind) == Msg("$/progress", kind)
ShowMessage(kind) == Msg("window/showMessage", kind)

\* client.F(...) for the run i
Send(i, msgs) == client' = [client EXCEPT ![i] = @ \o msgs]

\* lines 19-24: a call of runGenerate makes its context, draws its token
\* and takes the mutex
RunGenerate ==
    /\ Len(runs) < MaxRuns
    /\ inProgressMu = "free"
    /\ inProgressMu' = Holder("run", Len(runs) + 1)
    /\ runs' = Append(runs, [pc |-> "register", token |-> Token(Len(runs) + 1),
                             ctx |-> "live", writes |-> 0, req |-> "none"])
    /\ client' = Append(client, <<>>)
    /\ UNCHANGED <<inProgress, cancels, supportsWorkDoneProgress,
                   inlineProgress>>
    /\ UNCHANGED <<stubVars, implVars>>

\* workDoneWriter.start (lines 149-165): the create request, and the begin
\* notification when the client took it
workDoneStart(created) ==
    IF created
    THEN <<Msg("window/workDoneProgress/create", ""), Progress("begin")>>
    ELSE <<Msg("window/workDoneProgress/create", "")>>

\* lines 25-38: the token is stored, the mutex released and the progress
\* writer made and started: a workDoneWriter sends the create request and
\* begin, a messageWriter starts the goroutine that asks the client (lines
\* 107-120). In the runGenerate that reports the progress itself, a create
\* request the client refuses or a command that does not start ends the
\* call
Register ==
    \E i \in 1..Len(runs) :
        /\ runs[i].pc = "register"
        /\ inProgress' = [t \in DOMAIN inProgress \cup {runs[i].token} |->
                             IF t = runs[i].token THEN i ELSE inProgress[t]]
        /\ inProgressMu' = "free"
        /\ IF inlineProgress
           THEN \E created \in BOOLEAN, started \in BOOLEAN :
                   /\ Send(i, workDoneStart(created))
                   /\ runs' = [runs EXCEPT ![i].pc = IF created /\ started
                                                      THEN "run" ELSE "clear"]
           ELSE IF supportsWorkDoneProgress
           THEN \E created \in BOOLEAN :
                   /\ Send(i, workDoneStart(created))
                   /\ runs' = [runs EXCEPT ![i].pc = "run"]
           ELSE /\ Send(i, <<Msg("window/showMessageRequest", "started")>>)
                /\ runs' = [runs EXCEPT ![i].pc = "run", ![i].req = "pending"]
        /\ UNCHANGED <<cancels, supportsWorkDoneProgress, inlineProgress>>
        /\ UNCHANGED <<stubVars, implVars>>

\* lines 116-118: the client answers the request of the messageWriter with
\* Cancel and the goroutine calls lw.cancel(); any other answer, or none,
\* changes nothing, and neither does Cancel once runGenerate has returned
\* and cancelled the context itself
AnswerRequest ==
    \E i \in 1..Len(runs) :
        /\ runs[i].req = "pending"
        /\ runs[i].pc # "done"
        /\ runs' = [runs EXCEPT ![i].req = "answered",
                                ![i].ctx = "cancelled"]
        /\ UNCHANGED <<inProgress, inProgressMu, cancels, client,
                       supportsWorkDoneProgress, inlineProgress>>
        /\ UNCHANGED <<stubVars, implVars>>

\* the lines written so far by the first n runs
RECURSIVE Written(_)
Written(n) == IF n = 0 THEN 0 ELSE runs[n].writes + Written(n - 1)

\* messageWriter.Write (lines 103-105)
messageWrite(p) == <<>>

\* workDoneWriter.Write (lines 138-147)
workDoneWrite(p) == <<Progress("report")>>

\* line 40: go generate writes a line to its standard error, which goes to
\* the progress writer
Write ==
    \E i \in 1..Len(runs) :
        /\ runs[i].pc = "run"
        /\ Written(Len(runs)) < MaxWrites
        /\ runs' = [runs EXCEPT ![i].writes = @ + 1]
        /\ Send(i, IF inlineProgress \/ supportsWorkDoneProgress
                   THEN workDoneWrite(runs[i].writes + 1)
                   ELSE messageWrite(runs[i].writes + 1))
        /\ UNCHANGED <<inProgress, inProgressMu, cancels,
                       supportsWorkDoneProgress, inlineProgress>>
        /\ UNCHANGED <<stubVars, implVars>>

\* messageWriter.Close (lines 122-127)
messageClose == <<ShowMessage("finished")>>

\* workDoneWriter.Close (lines 167-175)
workDoneClose == <<Progress("end")>>

\* lines 41-48 and the deferred wc.Close() of line 38: the command ends,
\* with an error or without; an error of a run that was not cancelled is
\* shown, and the writer is closed. The runGenerate that reports the
\* progress itself returns at once when the run was cancelled and sends
\* the end of the progress otherwise
RunAndClose ==
    \E i \in 1..Len(runs) :
        /\ runs[i].pc = "run"
        /\ \E failed \in BOOLEAN :
              LET shown == IF failed /\ runs[i].ctx = "live"
                           THEN <<ShowMessage("error")>> ELSE <<>>
              IN  Send(i, IF inlineProgress
                          THEN IF runs[i].ctx = "cancelled" THEN <<>>
                               ELSE shown \o workDoneClose
                          ELSE IF supportsWorkDoneProgress
                          THEN shown \o workDoneClose
                          ELSE shown \o messageClose)
        /\ runs' = [runs EXCEPT ![i].pc = "clear"]
        /\ UNCHANGED <<inProgress, inProgressMu, cancels,
                       supportsWorkDoneProgress, inlineProgress>>
        /\ UNCHANGED <<stubVars, implVars>>

\* line 52, in the deferred clearInProgress(token): s.inProgressMu.Lock()
ClearLock ==
    \E i \in 1..Len(runs) :
        /\ runs[i].pc = "clear"
        /\ inProgressMu = "free"
        /\ inProgressMu' = Holder("run", i)
        /\ runs' = [runs EXCEPT ![i].pc = "delete"]
        /\ UNCHANGED <<inProgress, cancels, client, supportsWorkDoneProgress,
                       inlineProgress>>
        /\ UNCHANGED <<stubVars, implVars>>

\* lines 53-54: delete(s.inProgress, token) and Unlock; then the deferred
\* cancel() of line 21, and runGenerate returns
ClearDelete ==
    \E i \in 1..Len(runs) :
        /\ runs[i].pc = "delete"
        /\ inProgress' = [t \in DOMAIN inProgress \ {runs[i].token} |->
                             inProgress[t]]
        /\ inProgressMu' = "free"
        /\ runs' = [runs EXCEPT ![i].pc = "done", ![i].ctx = "cancelled"]
        /\ UNCHANGED <<cancels, client, supportsWorkDoneProgress,
                       inlineProgress>>
        /\ UNCHANGED <<stubVars, implVars>>

\* params.Token of a request: the token of a run, a string no run has, or
\* a number
CancelParams ==
    {[isString |-> TRUE, val |-> Token(k)] : k \in 1..(MaxRuns + 1)}
    \cup {[isString |-> FALSE, val |-> "1"]}

\* workDoneProgressCancel, lines 15-19: a token that is not a string is
\* refused; otherwise the mutex is taken
CancelRequest ==
    /\ Len(cancels) < MaxCancels
    /\ \E param \in CancelParams :
          IF ~param.isString
          THEN /\ cancels' = Append(cancels,
                                    [pc |-> "done", Token |-> param,
                                     hit |-> 0, result |-> "error"])
               /\ UNCHANGED inProgressMu
          ELSE /\ inProgressMu = "free"
               /\ inProgressMu' = Holder("cancel", Len(cancels) + 1)
               /\ cancels' = Append(cancels,
                                    [pc |-> "lookup", Token |-> param,
                                     hit |-> 0, result |-> "none"])
    /\ UNCHANGED <<inProgress, runs, client, supportsWorkDoneProgress,
                   inlineProgress>>
    /\ UNCHANGED <<stubVars, implVars>>

\* a lookup that calls the cancel function of the run started first among
\* those in progress
CancelLookupFirst ==
    \E j \in 1..Len(cancels) :
        /\ cancels[j].pc = "lookup"
        /\ inProgressMu' = "free"
        /\ LET token == cancels[j].Token.val IN
           IF token \notin DOMAIN inProgress
           THEN /\ cancels' = [cancels EXCEPT ![j].pc = "done",
                                              ![j].result = "error"]
                /\ UNCHANGED runs
           ELSE LET r == CHOOSE i \in 1..Len(runs) :
                            /\ Token(i) \in DOMAIN inProgress
                            /\ \A k \in 1..(i - 1) :
                                  Token(k) \notin DOMAIN inProgress
                IN  /\ runs' = [runs EXCEPT ![r].ctx = "cancelled"]
                    /\ cancels' = [cancels EXCEPT ![j].pc = "done",
                                                  ![j].hit = r,
                                                  ![j].result = "nil"]
        /\ UNCHANGED <<inProgress, client, supportsWorkDoneProgress,
                       inlineProgress>>
        /\ UNCHANGED <<stubVars, implVars>>

\* lines 20-26: the token is looked up; one that is not there is refused,
\* the cancel function of one that is there is called; the mutex is
\* released when the request returns
CancelLookup ==
    \E j \in 1..Len(cancels) :
        /\ cancels[j].pc = "lookup"
        /\ inProgressMu' = "free"
        /\ LET token == cancels[j].Token.val IN
           IF token \notin DOMAIN inProgress
           THEN /\ cancels' = [cancels EXCEPT ![j].pc = "done",
                                              ![j].result = "error"]
                /\ UNCHANGED runs
           ELSE /\ runs' = [runs EXCEPT
                               ![inProgress[token]].ctx = "cancelled"]
                /\ cancels' = [cancels EXCEPT ![j].pc = "done",
                                              ![j].hit = inProgress[token],
                                              ![j].result = "nil"]
        /\ UNCHANGED <<inProgress, client, supportsWorkDoneProgress,
                       inlineProgress>>
        /\ UNCHANGED <<stubVars, implVars>>

\* the server as constructed, with the client's capability, and with one
\* runGenerate or the other; no code action is asked for
InitGenerate ==
    /\ diags = <<>>
    /\ InitLocals
    /\ other = NoCall
    /\ NoImplement
    /\ inProgress = [t \in {} |-> 0]
    /\ inProgressMu = "free"
    /\ runs = <<>>
    /\ cancels = <<>>
    /\ client = <<>>
    /\ \/ inlineProgress = FALSE /\ supportsWorkDoneProgress \in BOOLEAN
       \/ inlineProgress = TRUE /\ supportsWorkDoneProgress = TRUE

NextGenerate ==
    \/ RunGenerate
    \/ Register
    \/ AnswerRequest
    \/ Write
    \/ RunAndClose
    \/ ClearLock
    \/ ClearDelete
    \/ CancelRequest
    \/ CancelLookup

SpecGenerate == InitGenerate /\ [][NextGenerate]_vars

\* every goroutine that can take a step takes one in the end: a run that
\* waits for the mutex gets it (sync.Mutex hands a starving waiter the
\* lock), and the command ends
SpecGenerateFair ==
    /\ SpecGenerate
    /\ WF_vars(Register) /\ WF_vars(RunAndClose) /\ SF_vars(ClearLock)
    /\ WF_vars(ClearDelete) /\ WF_vars(CancelLookup)

----------------
(* What the request requires, read off the snapshot *)

RECURSIVE Reach(_, _)
\* the interface `id` and the interfaces it embeds, transitively
Reach(w, id) ==
    {id} \cup UNION {Reach(w, w.ifaces[id].embeds[k]) :
                        k \in 1..Len(w.ifaces[id].embeds)}

\* the method names the requested interface requires
Required(w) ==
    UNION {{w.ifaces[i].methods[k].name : k \in 1..Len(w.ifaces[i].methods)} :
              i \in Reach(w, w.root)}

\* T has the name in its value- or pointer-method set
Has(w, name) == w.ct.tms[name] # NoSig \/ w.ct.pms[name] # NoSig

\* the signature of T's method of that name
Have(w, name) ==
    IF w.ct.tms[name] # NoSig THEN w.ct.tms[name] ELSE w.ct.pms[name]

\* the required names T has with another signature than the interface's
Mismatched(w) == {n \in Required(w) : Has(w, n) /\ Have(w, n) # S1}

\* the positions (entry, method) of the entries missingMethods returned
Listed == {p \in (1..Len(mm.missing)) \X (1..2) :
              p[2] <= Len(mm.missing[p[1]].missing)}

ListedNames == {mm.missing[p[1]].missing[p[2]].name : p \in Listed}

LookupsSucceed(w) ==
    /\ w.failImport = {}
    /\ w.failFile = {}
    /\ w.ifaces[w.root].isIface

\* C1: when missingMethods, called for an interface with its package,
\* returns its entries, the names they list are exactly the names the
\* interface requires, itself or through embedded interfaces, that are in
\* neither of T's method sets; and it does return them when no method
\* mismatches and every lookup succeeds
MissingIsRequiredNotHad ==
    (pc # "start" /\ world.ifacePkg # NoPkg) =>
        /\ mm.err = NoErr =>
              ListedNames = {n \in Required(world) : ~Has(world, n)}
        /\ (Mismatched(world) = {} /\ LookupsSucceed(world)) => mm.err = NoErr

\* an embedded interface contributes a missing method, and a required
\* method that T has only in its pointer-method set is not listed
MissingIsRequiredNotHadWitness ==
    /\ pc = "done"
    /\ mm.err = NoErr
    /\ \E p \in Listed : mm.missing[p[1]].iface # world.root
    /\ \E n \in Required(world) :
          world.ct.tms[n] = NoSig /\ world.ct.pms[n] # NoSig

\* C2: a method T lacks is listed exactly once across the entries that
\* missingMethods, called for an interface with its package, returns,
\* however many interfaces of the embedding graph declare it, and gets one
\* stub in the patch and in the code action returned for the diagnostic
MissingListedOnce ==
    (pc # "start" /\ world.ifacePkg # NoPkg /\ mm.err = NoErr) =>
        \A n \in Required(world) :
            ~Has(world, n) =>
                /\ Cardinality({p \in Listed :
                       mm.missing[p[1]].missing[p[2]].name = n}) = 1
                /\ pc = "patch" =>
                      Cardinality({k \in 1..Len(stubs) :
                          stubs[k].Method = n}) = 1
                /\ (pc = "done" /\ Len(diags) = 1 /\ err = NoErr) =>
                      /\ Len(actions) = 1
                      /\ Cardinality({k \in 1..Len(actions[1].Stubs) :
                             actions[1].Stubs[k].Method = n}) = 1

\* a diamond: an interface embedded by two interfaces, whose method another
\* interface declares as well, and T lacks it
MissingListedOnceWitness ==
    /\ pc = "done"
    /\ mm.err = NoErr
    /\ \E n \in Required(world) :
          /\ ~Has(world, n)
          /\ Cardinality({i \in Reach(world, world.root) :
                 \E k \in 1..Len(world.ifaces[i].methods) :
                     world.ifaces[i].methods[k].name = n}) >= 2
          /\ \E a \in Reach(world, world.root) :
                /\ \E k \in 1..Len(world.ifaces[a].methods) :
                      world.ifaces[a].methods[k].name = n
                /\ Cardinality({i \in Reach(world, world.root) :
                       \E k \in 1..Len(world.ifaces[i].embeds) :
                           world.ifaces[i].embeds[k] = a}) >= 2

----------------------------------------------------------------------------
(* The stubs: each type reference as the interface file has it (src) and as
   the stub has it (Signature) *)

Refs == {p \in (1..Len(stubs)) \X (1..(MaxSigLen + 1)) :
            p[2] <= Len(stubs[p[1]].src)}

Src(p) == stubs[p[1]].src[p[2]]
Out(p) == stubs[p[1]].Signature[p[2]]

\* the reference names a type that a package owns
OwnedType(node) == node.obj = "named" /\ node.owner # NoPkg

\* the imports of T's file that bind a name: neither blank nor dot
Usable(imports) ==
    SelectSeq(imports, LAMBDA imp : imp.Name # "_" /\ imp.Name # ".")

\* the names under which T's file refers to package `path`
Aliases(w, path) ==
    LET usable == Usable(w.ct.imports) IN
    {IF usable[k].Name = "" THEN PkgName(path) ELSE usable[k].Name :
        k \in {j \in 1..Len(usable) : usable[j].Path = path}}

Queued(name, path) ==
    \E k \in 1..Len(addedImports) :
        addedImports[k] = [Name |-> name, Path |-> path]

\* the name q denotes package `path` in T's file once the queued imports
\* are added
Binds(q, path) ==
    \/ q \in Aliases(world, path)
    \/ Queued(q, path)
    \/ q = PkgName(path) /\ Queued("", path)

\* the name the stub must use for package `path`: the one T's file already
\* has for it, else the package's own name with the import queued
QualifiedFor(out, path) ==
    /\ out.kind = "sel"
    /\ IF Aliases(world, path) # {}
       THEN out.q \in Aliases(world, path)
       ELSE out.q = PkgName(path) /\ Queued("", path)

\* C4: every type reference of a stub resolves in T's file to the type it
\* denotes in the interface file: a qualified one has its qualifier bound to
\* the owning package by an import of T's file or a queued one, a bare one
\* is predeclared or owned by T's package
StubsResolve ==
    \A p \in Refs :
        IF OwnedType(Src(p))
        THEN /\ Out(p).name = Src(p).name
             /\ IF Out(p).kind = "sel"
                THEN Binds(Out(p).q, Src(p).owner)
                ELSE Src(p).owner = world.ct.pkg
        ELSE Out(p) = Src(p)

\* C5: a bare identifier naming a type declared in the package of the file
\* the method is written in, another package than T's, is qualified in the
\* stub, also when that file is an embedded interface's of another package
\* than the requested interface's
LocalTypesQualified ==
    \A p \in Refs :
        (/\ Src(p).kind = "ident"
         /\ OwnedType(Src(p))
         /\ Src(p).owner = Src(p).file
         /\ Src(p).owner # world.ct.pkg)
        => /\ Out(p).name = Src(p).name
           /\ QualifiedFor(Out(p), Src(p).owner)

\* C6: a selector whose type T's package owns becomes the bare identifier,
\* and no import of T's own package is queued
SelfUnqualified ==
    /\ \A p \in Refs :
          (Src(p).kind = "sel" /\ Src(p).owner = world.ct.pkg)
          => Out(p) = Ident(Src(p).file, Src(p).name, "named", world.ct.pkg)
    /\ \A k \in 1..Len(addedImports) : addedImports[k].Path # world.ct.pkg

\* a stub was rendered from a selector of T's package
SelfUnqualifiedWitness ==
    /\ pc = "done"
    /\ Len(actions) = 1
    /\ \E p \in Refs : Src(p).kind = "sel" /\ Src(p).owner = world.ct.pkg

\* C7: when T's file has a usable import of a package, every reference to
\* a type of that package, selector or bare identifier in the interface
\* file, is written with that import's name and no import of it is queued
AliasHonoured ==
    \A p \in Refs :
        (OwnedType(Src(p)) /\ Aliases(world, Src(p).owner) # {})
        => /\ Out(p).kind = "sel"
           /\ Out(p).name = Src(p).name
           /\ Out(p).q \in Aliases(world, Src(p).owner)
           /\ \A k \in 1..Len(addedImports) :
                 addedImports[k].Path # Src(p).owner

\* C8: a bare identifier visible through a dot-import, of a package that is
\* neither the interface file's nor T's, is qualified in the stub
DotImportExpanded ==
    \A p \in Refs :
        (/\ Src(p).kind = "ident"
         /\ OwnedType(Src(p))
         /\ Src(p).owner # Src(p).file
         /\ Src(p).owner # world.ct.pkg)
        => /\ Out(p).name = Src(p).name
           /\ QualifiedFor(Out(p), Src(p).owner)

RECURSIVE RewriteFrom(_, _, _, _, _)
\* the signature `nodes` rewritten from node i on for a file whose imports
\* are ct.imports: the rewritten nodes and the imports queued
RewriteFrom(nodes, i, miPkg, ct, added) ==
    IF i > Len(nodes) THEN [sig |-> nodes, added |-> added]
    ELSE LET r == applyFunc(nodes[i], miPkg, world.ifacePkg, ct, added) IN
         RewriteFrom([nodes EXCEPT ![i] = r.node], i + 1, miPkg, ct, r.added)

RECURSIVE RewriteStubs(_, _, _)
\* the signatures of stubs k.. rewritten in turn for such a file
RewriteStubs(k, ct, added) ==
    IF k > Len(stubs) THEN [sigs |-> <<>>, added |-> added]
    ELSE LET r == RewriteFrom(stubs[k].src, 1,
                              world.ifaces[stubs[k].iface].pkg, ct, added)
             rest == RewriteStubs(k + 1, ct, r.added)
         IN  [sigs |-> <<r.sig>> \o rest.sigs, added |-> rest.added]

AbsentImportQueued ==
    \A p \in Refs :
        (/\ Src(p).kind = "sel"
         /\ Src(p).owner # world.ct.pkg
         /\ Aliases(world, Src(p).owner) = {})
        => /\ Out(p) = Src(p)
           /\ Queued(IF Src(p).q # PkgName(Src(p).owner)
                     THEN Src(p).q ELSE "", Src(p).owner)
           /\ Binds(Out(p).q, Src(p).owner)

\* a selector under a renamed import, and one under the package's own
\* name, went into the stubs of one patch
AbsentImportQueuedWitness ==
    /\ pc = "done"
    /\ Len(actions) = 1
    /\ \E p \in Refs :
          /\ Src(p).kind = "sel"
          /\ Src(p).owner # world.ct.pkg
          /\ Aliases(world, Src(p).owner) = {}
          /\ Src(p).q # PkgName(Src(p).owner)
    /\ \E p \in Refs :
          /\ Src(p).kind = "sel"
          /\ Src(p).owner # world.ct.pkg
          /\ Aliases(world, Src(p).owner) = {}
          /\ Src(p).q = PkgName(Src(p).owner)

----------------------------------------------------------------------------
(* The queue of imports and the stub request *)

\* the list l is the beginning of the list m
IsPrefix(l, m) == Len(l) <= Len(m) /\ SubSeq(m, 1, Len(l)) = l

NoImportQueuedTwice ==
    /\ \A i, j \in 1..Len(addedImports) :
          addedImports[i] = addedImports[j] => i = j
    /\ \A k \in 1..Len(addedImports) :
          addImport(addedImports, addedImports[k].Name, addedImports[k].Path)
              = addedImports

\* C11: ct.addedImports never holds the same (name, path) twice; addImport
\* with a pair it holds leaves it as it is; and as long as the ct lives,
\* until the patch is built from it and the loop builds the ct of the next
\* diagnostic, every step keeps the entries it has, in their order, at the
\* beginning of the list
AddedImportsGrowUnique ==
    /\ []NoImportQueuedTwice
    /\ [][pc # "loop" => IsPrefix(addedImports, addedImports')]_vars

\* two selectors of one package that T's file does not import went through
\* the rewrite, the second met the import the first had queued
AddedImportsGrowUniqueWitness ==
    /\ pc = "patch"
    /\ Len(addedImports) = 1
    /\ \E p, q \in Refs :
          /\ p # q
          /\ Src(p).kind = "sel" /\ Src(q).kind = "sel"
          /\ Src(p).owner = Src(q).owner /\ Src(p).q = Src(q).q
          /\ Src(p).owner # world.ct.pkg
          /\ Aliases(world, Src(p).owner) = {}
          /\ Queued(IF Src(p).q # PkgName(Src(p).owner) THEN Src(p).q ELSE "",
                    Src(p).owner)

\* the path from the diagnostic up to the file goes through such a node
Encloses(site, node) == node \in {site.nodes[k] : k \in 1..Len(site.nodes)}

\* a request was extracted for the diagnostic the loop is at
InRequest == pc \in {"start", "rewrite", "patch"}

TakesAddress(site) == site.vs.amp \/ site.vs.star

\* C13: the request of a value declaration has its pointer flag set exactly
\* when the initialiser has an address-of operator or a star expression,
\* and every stub rendered for it, in the buffer and in the code action,
\* has the receiver *T when it has one and T when it has none
PointerFlagFromInitialiser ==
    /\ (InRequest /\ Encloses(diags[di].site, "ValueSpec")) =>
          /\ ir.pointer <=> TakesAddress(diags[di].site)
          /\ \A k \in 1..Len(stubs) :
                stubs[k].Concrete = IF TakesAddress(diags[di].site)
                                    THEN "*T" ELSE "T"
    /\ \A a \in 1..Len(actions) :
          LET d == diags[actions[a].Diagnostics[1]] IN
          Encloses(d.site, "ValueSpec") =>
              \A k \in 1..Len(actions[a].Stubs) :
                  actions[a].Stubs[k].Concrete =
                      IF TakesAddress(d.site) THEN "*T" ELSE "T"

\* a code action whose stub has the receiver *T for an initialiser with a
\* star expression and no address-of operator
PointerFlagFromInitialiserWitness ==
    /\ pc = "done"
    /\ \E a \in 1..Len(actions) :
          LET d == diags[actions[a].Diagnostics[1]] IN
          /\ Encloses(d.site, "ValueSpec")
          /\ d.site.vs.star /\ ~d.site.vs.amp
          /\ Len(actions[a].Stubs) > 0
          /\ actions[a].Stubs[1].Concrete = "*T"

\* MethodStubActions is called for the diagnostic: it is of a kind it
\* processes
Actionable(d) ==
    /\ d.Source = "compiler"
    /\ \/ Contains(d.Message, <<"missing", "method">>)
       \/ HasPrefix(d.Message, <<"cannot", "convert">>)

\* the return rule applies to the diagnostic and no result expression of
\* the return statement covers its position
ReturnOutOfRange(d) ==
    /\ ~Encloses(d.site, "ValueSpec")
    /\ Encloses(d.site, "ReturnStmt")
    /\ \A k \in 1..Len(d.site.rs) :
          d.site.pos < d.site.rs[k].Pos \/ d.site.pos > d.site.rs[k].End

\* C14: the loop never goes past a diagnostic it processes that lies in a
\* return statement with no result expression covering its position: the
\* extractor's error ends the call
ReturnOutOfRangeSurfaced ==
    \A k \in 1..Len(diags) :
        (k < di /\ Actionable(diags[k])) => ~ReturnOutOfRange(diags[k])

\* the package that declares the type object of that name
OwnerOf(w, name) ==
    IF name = w.ct.name THEN w.ct.pkg ELSE w.ifaces[w.root].pkg

\* the packages that own the two type objects of the request are the
\* analysed one or ones whose import lookup succeeds
SidesResolved(d, r) ==
    \A owner \in {OwnerOf(d.snap, r.ifaceObj),
                  OwnerOf(d.snap, r.concreteObj)} :
        owner # d.site.pkg => ~GetImportFails(d.snap, d.site.pkg, owner)

\* C15: a request that the extractor returns, from a value declaration or
\* from a return statement, has its interface package and its concrete
\* package, and no import lookup for the package of either type object
\* failed
RequestHasPackages ==
    InRequest =>
        /\ ir.ifacePkg # NoPkg
        /\ ir.concretePkg # NoPkg
        /\ SidesResolved(diags[di], ir)

\* C16: every code action is for a compiler diagnostic whose message has
\* "missing method" or begins with "cannot convert"; and the step the loop
\* takes at any other diagnostic goes to the next one and changes nothing
\* else: no action, no error, nothing of what the next diagnostics start
\* from
OnlyActionableProcessed ==
    /\ [](\A a \in 1..Len(actions) :
            Actionable(diags[actions[a].Diagnostics[1]]))
    /\ [][(pc = "loop" /\ di <= Len(diags) /\ ~Actionable(diags[di])) =>
             /\ di' = di + 1
             /\ UNCHANGED <<pc, diags, ir, world, mm, addedImports, cur,
                            sig, stubs, actions, err>>]_vars

\* the call returned one action, for a diagnostic that is not the first,
\* and its list has a diagnostic of another source than the compiler with
\* "missing method" in its message
OnlyActionableProcessedWitness ==
    /\ pc = "done"
    /\ err = NoErr
    /\ Len(actions) = 1
    /\ actions[1].Diagnostics[1] > 1
    /\ \E k \in 1..Len(diags) :
          diags[k].Source # "compiler"
          /\ Contains(diags[k].Message, <<"missing", "method">>)

\* C17: once the stubs of the code action are in T's file, with the
\* receiver they were given and the types the interface gives the methods,
\* the call for the same diagnostic finds no method missing, returns no
\* error and no code action
StubsIdempotent ==
    world.ct.version > 1 =>
        /\ pc \in {"start", "done"}
        /\ pc = "done" =>
              /\ mm.missing = <<>>
              /\ mm.err = NoErr
              /\ actions = <<>>
              /\ err = NoErr

\* the second call returned, for a T that got the method of the interface
\* with the receiver *T and whose file got the import the first call queued
StubsIdempotentWitness ==
    /\ pc = "done"
    /\ world.ct.version > 1
    /\ TakesAddress(diags[1].site)
    /\ world.ct.tms["F"] = NoSig /\ world.ct.pms["F"] = S1
    /\ world.ct.imports # <<>>

\* the name an interface of the snapshot is to be shown under in T's file:
\* bare when T's package declares it, else after its package's name
ShownIn(w) ==
    IF w.ifaces[w.root].pkg = w.ct.pkg THEN "I"
    ELSE PkgName(w.ifaces[w.root].pkg) \o ".I"

\* C18: the comment of every stub and the title of every code action show
\* the interface bare when its package is T's and after its package's name
\* otherwise, whichever package the diagnostic is reported in
InterfaceShownForConcrete ==
    /\ \A k \in 1..Len(stubs) : stubs[k].Interface = ShownIn(world)
    /\ \A a \in 1..Len(actions) :
          LET d == diags[actions[a].Diagnostics[1]] IN
          /\ actions[a].Title = "Implement " \o ShownIn(d.snap)
          /\ \A k \in 1..Len(actions[a].Stubs) :
                actions[a].Stubs[k].Interface = ShownIn(d.snap)

\* formatting a signature, formatting T's file, reparsing the spliced text
\* and printing it
FormatFaults == {"formatSig", "formatFile", "reparse", "formatNew"}

\* C19: no code action is built for a diagnostic at which formatting a
\* signature, reparsing the spliced source or printing it fails; when it
\* fails for a diagnostic that has a request and missing methods, the call
\* has returned at that diagnostic with an error that names the operation
\* and with no code action, whatever it had gathered before
FormatFailureAborts ==
    /\ \A a \in 1..Len(actions) :
          diags[actions[a].Diagnostics[1]].fault \notin FormatFaults
    /\ \A k \in 1..Len(diags) :
          (/\ diags[k].fault \in FormatFaults
           /\ k = di
           /\ pc \in {"loop", "done"}
           /\ mm.err = NoErr /\ mm.missing # <<>>
           /\ world = [diags[k].snap EXCEPT !.ifacePkg = ir.ifacePkg])
          => /\ pc = "done"
             /\ err.type = diags[k].fault
             /\ err.op # ""
             /\ actions = <<>>

\* reparsing failed at the second diagnostic, after the first had got its
\* code action: the call returned the error and no action
FormatFailureAbortsWitness ==
    /\ pc = "done"
    /\ Len(diags) = 2
    /\ di = 2
    /\ Actionable(diags[1])
    /\ diags[2].fault = "reparse"
    /\ err = Wrap("could not reparse file", MkErr("reparse"))
    /\ actions = <<>>

\* the imports that rewriting the nodes i.. of a signature of a file of
\* package miPkg queues after those of `added`, for the request of w
RECURSIVE QueuedFrom(_, _, _, _, _)
QueuedFrom(w, nodes, i, miPkg, added) ==
    IF i > Len(nodes) THEN added
    ELSE QueuedFrom(w, nodes, i + 1, miPkg,
                    applyFunc(nodes[i], miPkg, w.ifacePkg, w.ct, added).added)

\* the imports that rewriting the signatures of the stubs k.. queues
RECURSIVE QueuedByStubs(_, _, _, _)
QueuedByStubs(w, ss, k, added) ==
    IF k > Len(ss) THEN added
    ELSE QueuedByStubs(w, ss, k + 1,
                       QueuedFrom(w, ss[k].src, 1, w.ifaces[ss[k].iface].pkg,
                                  added))

\* the locals c of a call hold, for the patch being built and in every code
\* action, the imports that the request's own signatures queue from an
\* empty list, no other and all of them
OwnImports(c) ==
    /\ c.pc = "patch" =>
          c.addedImports = QueuedByStubs(c.world, c.stubs, 1, <<>>)
    /\ \A a \in 1..Len(c.actions) :
          c.actions[a].Imports =
              QueuedByStubs(c.diags[c.actions[a].Diagnostics[1]].snap,
                            c.actions[a].Stubs, 1, <<>>)

\* C20: for two calls interleaved in any way, each for one or more
\* diagnostics, the imports of every patch are exactly those that the
\* rewrite of that request's own signatures queues: none of another
\* request, of the same call or of the other, is among them or keeps one of
\* them out
RequestsShareNoImports ==
    /\ OwnImports([pc |-> pc, diags |-> diags, world |-> world,
                   stubs |-> stubs, addedImports |-> addedImports,
                   actions |-> actions])
    /\ OwnImports(other)

\* a call returned two code actions with different imports while the other
\* call, which queues the imports of the first of them, was between its
\* rewrite and its patch
RequestsShareNoImportsWitness ==
    /\ pc = "done"
    /\ Len(actions) = 2
    /\ actions[1].Imports # actions[2].Imports
    /\ actions[1].Imports # <<>>
    /\ other.pc = "patch"
    /\ other.addedImports = actions[1].Imports

----------------------------------------------------------------------------
(* What a synthesis writes, what it returns and how it walks *)

\* C21: a synthesis never writes its inputs: no step of Implement or of
\* MethodStubActions changes the Target of a package descriptor, the
\* snapshot of the request or the diagnostics handed in
InputsReadOnly ==
    [][Target' = Target /\ diags' = diags
       /\ (pc = "render" => world' = world)]_vars

\* the request that MethodStubActions extracts for the diagnostic d
RequestOf(d) == getImplementRequest(d.snap, d.site)

\* C22: every code action is titled "Implement " and the interface's name,
\* bare or qualified with its package's name, is a quickfix, carries the
\* one diagnostic it was made for, and has one document change, for the
\* file that declares the concrete type of the request, in the version the
\* snapshot has of it, and never for the file of the diagnostic
ActionTargetsDeclaringFile ==
    \A a \in 1..Len(actions) :
        /\ Len(actions[a].Diagnostics) = 1
        /\ actions[a].Diagnostics[1] \in 1..Len(diags)
        /\ LET d == diags[actions[a].Diagnostics[1]]
               r == RequestOf(d)
               name == r.concreteObj
           IN  /\ Actionable(d)
               /\ r.kind = "request"
               /\ actions[a].Title
                     \in {"Implement " \o r.ifaceObj,
                          "Implement " \o PkgName(r.ifacePkg) \o "."
                              \o r.ifaceObj}
               /\ actions[a].Kind = "quickfix"
               /\ Len(actions[a].DocumentChanges) = 1
               /\ actions[a].DocumentChanges[1].TextDocument =
                     [URI |-> OwnerOf(d.snap, name) \o "/" \o name \o ".go",
                      Version |-> IF name = d.snap.ct.name
                                  THEN d.snap.ct.version ELSE 1]
               /\ actions[a].DocumentChanges[1].TextDocument.URI
                     # d.site.pkg \o "/fh.go"

\* a diagnostic reported in a file of a package other than T's got its
\* action, for T's file
ActionTargetsDeclaringFileWitness ==
    /\ pc = "done"
    /\ Len(actions) = 1
    /\ actions[1].Diagnostics = <<1>>
    /\ diags[1].site.pkg # diags[1].snap.ct.pkg
    /\ RequestOf(diags[1]).concreteObj = diags[1].snap.ct.name
    /\ actions[1].DocumentChanges[1].TextDocument.URI =
          diags[1].snap.ct.pkg \o "/T.go"

\* C23: the walk calls the function once for every type reference of a
\* signature, for a selector before anything below it, and then goes to
\* the next reference: it is never called for the qualifier or the
\* selected name of a selector, whether the selector was renamed, replaced
\* by its name or left alone, so no selected name gets a second qualifier;
\* a reference keeps its name, and the walk stops abruptly only for a
\* package that is nil
SelectorsVisitedWhole ==
    /\ [](cur.n > 0 => cur.calls = cur.n - 1)
    /\ [](\A p \in Refs :
             /\ Out(p).name = Src(p).name
             /\ Src(p).kind = "sel" => Out(p).kind \in {"sel", "ident"}
             /\ (Src(p).kind = "sel" /\ Out(p).kind = "sel")
                => Out(p).path = Src(p).path)
    /\ [][(pc = "rewrite" /\ pc' = "panic")
          => \/ world.ifacePkg = NoPkg
             \/ cur.n <= Len(sig) /\ mm.missing[cur.mi].pkg = NoPkg]_vars

\* the stubs of a request are rendered: one selector was replaced by its
\* name and another got the qualifier T's file uses
SelectorsVisitedWholeWitness ==
    /\ pc = "patch"
    /\ \E p \in Refs : Src(p).kind = "sel" /\ Out(p).kind = "ident"
    /\ \E p \in Refs : /\ Src(p).kind = "sel"
                       /\ Out(p).kind = "sel"
                       /\ Out(p).q # Src(p).q
    /\ cur.calls = Len(sig)

----------------------------------------------------------------------------
(* The order of the entries and of the stubs *)

\* the interfaces below `id` and `id` itself, each embedded interface with
\* all it embeds before the next one and before the interface embedding it
RECURSIVE PostOrder(_, _)
RECURSIVE PostOrderOfEmbeds(_, _, _)
PostOrderOfEmbeds(w, id, k) ==
    IF k > Len(w.ifaces[id].embeds) THEN <<>>
    ELSE PostOrder(w, w.ifaces[id].embeds[k])
         \o PostOrderOfEmbeds(w, id, k + 1)

PostOrder(w, id) == PostOrderOfEmbeds(w, id, 1) \o <<id>>

\* the names of the explicit methods of `id`, in order of declaration, that
\* T lacks and that are not in `seen`
RECURSIVE Contribution(_, _, _, _)
Contribution(w, id, k, seen) ==
    IF k > Len(w.ifaces[id].methods) THEN <<>>
    ELSE LET n == w.ifaces[id].methods[k].name IN
         IF ~Has(w, n) /\ n \notin seen
         THEN <<n>> \o Contribution(w, id, k + 1, seen \cup {n})
         ELSE Contribution(w, id, k + 1, seen)

\* the entries expected for the interfaces order[k..]: one for each that
\* contributes a method, with what it contributes
RECURSIVE ExpectedEntries(_, _, _, _)
ExpectedEntries(w, order, k, seen) ==
    IF k > Len(order) THEN <<>>
    ELSE LET c == Contribution(w, order[k], 1, seen) IN
         (IF Len(c) > 0 THEN <<[iface |-> order[k], names |-> c]>> ELSE <<>>)
         \o ExpectedEntries(w, order, k + 1,
                            seen \cup {c[j] : j \in 1..Len(c)})

\* the methods of entries, entry after entry
RECURSIVE Flatten(_, _)
Flatten(entries, k) ==
    IF k > Len(entries) THEN <<>>
    ELSE [j \in 1..Len(entries[k].names) |->
             [iface |-> entries[k].iface, name |-> entries[k].names[j]]]
         \o Flatten(entries, k + 1)

\* the entries missingMethods returned, as interface and method names
ReturnedEntries ==
    [k \in 1..Len(mm.missing) |->
        [iface |-> mm.missing[k].iface,
         names |-> [j \in 1..Len(mm.missing[k].missing) |->
                       mm.missing[k].missing[j].name]]]

\* C24: the list missingMethods returns has an entry for an interface if
\* and only if the interface contributes a missing method, no entry is
\* empty, the entries of embedded interfaces come in embedding order, each
\* with what it embeds first, before the entry of the embedding interface,
\* and the stubs are rendered entry after entry, in an entry in the order
\* the interface declares the methods
EntriesDepthFirst ==
    (pc \in {"rewrite", "patch"} /\ world.ifacePkg # NoPkg)
    => /\ \A k \in 1..Len(mm.missing) : Len(mm.missing[k].missing) > 0
       /\ ReturnedEntries
             = ExpectedEntries(world, PostOrder(world, world.root), 1, {})
       /\ pc = "patch"
          => [k \in 1..Len(stubs) |->
                 [iface |-> stubs[k].iface, name |-> stubs[k].Method]]
             = Flatten(ReturnedEntries, 1)

\* I embeds the third interface before the second, each contributes a
\* method, and both stubs are rendered
EntriesDepthFirstWitness ==
    /\ pc = "patch"
    /\ world.ifaces[world.root].embeds = <<3, 2>>
    /\ Len(mm.missing) = 2
    /\ mm.missing[1].iface = 3
    /\ mm.missing[2].iface = 2
    /\ Len(stubs) = 2

----------------------------------------------------------------------------
(* The splice *)

\* C25: the spliced text is the bytes of T's file up to the end of T's
\* declaration, a line end, the stubs, and the bytes of T's file from there
\* on, the offset being one of that same file, also when the file is not
\* as gofmt would print it
SplicedAfterDeclaration ==
    pc = "patch"
    => LET src == world.ct.src
           e == EndOffset(src, 1)
           r == splice(src, methodsBuffer(stubs, 1))
       IN  /\ ~r.panic
           /\ r.buf = SubSeq(src, 1, e) \o <<"\n">>
                      \o methodsBuffer(stubs, 1)
                      \o SubSeq(src, e + 1, Len(src))

\* Implement returns the formatted file with the stubs right after T's
\* declaration, whatever the blanks of the file as read
ImplementSplicesContent ==
    (pc = "done" /\ err = NoErr /\ mm.missing # <<>>)
    => LET b == FormatNode(world.ct.src)
           e == EndOffset(b, 1)
       IN  implementation.FileContent
              = SubSeq(b, 1, e) \o <<"\n">>
                \o implMethodsBuffer(implementation.Methods, 1)
                \o SubSeq(b, e + 1, Len(b))

\* the splice ends the call abruptly, or ends it with the error of the
\* parser: never for a file in gofmt's form
SpliceFailsOnlyUnformatted ==
    [][(pc = "patch" /\ diags[di].fault = "none"
        /\ (pc' = "panic" \/ (pc' = "done" /\ err' # NoErr)))
       => world.ct.src # FormatNode(world.ct.src)]_vars

----------------------------------------------------------------------------
(* Type names without a package *)

\* a type name among the identifiers that has no package: error, int
HasPredeclared(idents) ==
    \E i \in 1..Len(idents) :
        idents[i].obj = "TypeName" /\ idents[i].pkg = NoPkg

\* the type name of the interface side or of the concrete side of the
\* site, as the extractor is sent to it, has no package
UsesPredeclared(site) ==
    IF isVariableDeclaration(site.nodes)
    THEN (site.vs.typed \/ site.vs.call)
         /\ \/ HasPredeclared(IF site.vs.typed THEN site.vs.Type
                              ELSE site.vs.Fun)
            \/ HasPredeclared(site.vs.Value)
    ELSE /\ isReturnStatement(site.nodes)
         /\ \E idx \in 1..Len(site.rs) :
               /\ getReturnIndex(site.rs, site.pos, 1).idx = idx
               /\ site.rs[idx].kind \notin {"MapType", "ArrayType"}
               /\ \/ HasPredeclared(site.rs[idx].idents)
                  \/ /\ site.fi.found
                     /\ site.fi.Results[idx].named
                     /\ site.fi.Results[idx].pkg = NoPkg

\* C26: a diagnostic at a site whose type name has no package gets no
\* request and is passed over: the call goes on with the next diagnostic
\* and does not end abruptly
PredeclaredIgnored ==
    (di \in 1..Len(diags) /\ UsesPredeclared(diags[di].site))
    => pc \in {"loop", "done"}

\* at such a site the extractor gives no request or ends abruptly, never a
\* request
PredeclaredNeverRequested ==
    (di \in 1..Len(diags) /\ UsesPredeclared(diags[di].site))
    => /\ pc \in {"loop", "done", "panic"}
       /\ RequestOf(diags[di]).kind \in {"nil", "panic"}

----------------------------------------------------------------------------
(* go generate: what the client is told, the tokens in progress and the
   requests that cancel *)

\* the server uses messageWriter
UsesMessageWriter == ~supportsWorkDoneProgress /\ ~inlineProgress

\* C27: with a messageWriter the client is told once, by the request sent
\* when go generate starts; nothing the writer is asked afterwards, Write
\* or Close, sends the client anything more. What a run sends after the
\* request can only be runGenerate's own message about a failed command
MessageWriterReportsOnce ==
    UsesMessageWriter
    => \A i \in 1..Len(client) :
          /\ Len(client[i]) > 0
             => client[i][1] = Msg("window/showMessageRequest", "started")
          /\ \A k \in 2..Len(client[i]) : client[i][k] = ShowMessage("error")

\* with a messageWriter, Write sends nothing: a line written leaves what
\* the client was sent as it is
MessageWriteSilent ==
    [][(UsesMessageWriter
        /\ \E i \in 1..Len(runs) : runs'[i].writes # runs[i].writes)
       => client' = client]_vars

----------------------------------------------------------------------------
(* Several diagnostics in one call *)

\* the snapshot with the request of the diagnostic and the type it names
WorldOf(d) ==
    [d.snap EXCEPT !.ifacePkg = RequestOf(d).ifacePkg,
                   !.ct = newConcreteType(d.snap, RequestOf(d), <<>>).ct]

\* the diagnostic gives a request and the type lacks none of the methods
MissingEmpty(d) ==
    /\ Actionable(d)
    /\ RequestOf(d).kind = "request"
    /\ \A n \in Required(WorldOf(d)) : Has(WorldOf(d), n)

\* the diagnostic is one an action is due for
Yields(d) ==
    /\ Actionable(d)
    /\ RequestOf(d).kind = "request"
    /\ \E n \in Required(WorldOf(d)) : ~Has(WorldOf(d), n)

\* the positions of the diagnostics an action is due for, in input order
YieldingPositions ==
    SelectSeq([k \in 1..Len(diags) |-> k], LAMBDA k : Yields(diags[k]))

\* the positions of the diagnostics the actions returned are for
ActionPositions == [k \in 1..Len(actions) |-> actions[k].Diagnostics[1]]

\* C28: a call that returns without an error returns one action for each
\* diagnostic an action is due for, in input order; a diagnostic that
\* gives no request or whose type lacks no method adds none and takes none
\* away
OneActionPerActionable ==
    (pc = "done" /\ err = NoErr) => ActionPositions = YieldingPositions

\* the same when no diagnostic names a type that lacks no method
OneActionPerActionableIncomplete ==
    (pc = "done" /\ err = NoErr
     /\ \A k \in 1..Len(diags) : ~MissingEmpty(diags[k]))
    => ActionPositions = YieldingPositions

\* two diagnostics, of which only the second gets no request, and the
\* action of the first is returned
ActionKeptWitness ==
    /\ pc = "done" /\ err = NoErr
    /\ Len(diags) = 2
    /\ Yields(diags[1])
    /\ Actionable(diags[2]) /\ RequestOf(diags[2]).kind = "nil"
    /\ ActionPositions = <<1>>

\* the last thing a run tells the client: the end of the progress, or that
\* go generate has finished
FinalNotifications == {Progress("end"), ShowMessage("finished")}

\* the client was sent the final notification of the run i, and nothing
\* after it
FinalSent(i) ==
    /\ Len(client[i]) > 0
    /\ client[i][Len(client[i])] \in FinalNotifications

\* runGenerate has returned for the run i, its token is not in the map and
\* the final notification was sent
RemovedAfterFinal(i) ==
    runs[i].pc = "done"
    => /\ runs[i].token \notin DOMAIN inProgress
       /\ FinalSent(i)

\* a token leaves the map only in the hands of its run, which holds the
\* mutex and has sent the final notification
RemovedUnderMutex(i) ==
    (runs[i].token \in DOMAIN inProgress
     /\ runs[i].token \notin DOMAIN inProgress')
    => /\ inProgressMu = Holder("run", i)
       /\ runs[i].pc = "delete"
       /\ FinalSent(i)

\* a token in the map is out of it in the end
TokenRemovedEventually ==
    \A i \in 1..MaxRuns :
        [](i <= Len(runs)
           => <>(i <= Len(runs) /\ runs[i].pc = "done"
                 /\ runs[i].token \notin DOMAIN inProgress))

\* C29: every token a run stores is removed in the end; on every way out
\* of runGenerate the token the run stored is
\* deleted before the function returns, with the mutex held, and after the
\* final notification of the run was sent: the map has no entry of a run
\* that has returned
TokenRemovedAfterFinal ==
    /\ [](\A i \in 1..Len(runs) : RemovedAfterFinal(i))
    /\ [][\A i \in 1..Len(runs) : RemovedUnderMutex(i)]_vars
    /\ TokenRemovedEventually

\* the same of the runGenerate with a progress writer alone
TokenRemovedAfterFinalWithWriter ==
    /\ [](~inlineProgress => \A i \in 1..Len(runs) : RemovedAfterFinal(i))
    /\ [][~inlineProgress
          => \A i \in 1..Len(runs) : RemovedUnderMutex(i)]_vars
    /\ TokenRemovedEventually

\* in either runGenerate the token is deleted before the function returns,
\* with the mutex held, and the client is told nothing about a run whose
\* token is gone
TokenRemoved ==
    /\ [](\A i \in 1..Len(runs) :
             runs[i].pc = "done" => runs[i].token \notin DOMAIN inProgress)
    /\ [][\A i \in 1..Len(runs) :
             /\ (runs[i].token \in DOMAIN inProgress
                 /\ runs[i].token \notin DOMAIN inProgress')
                => (inProgressMu = Holder("run", i) /\ runs[i].pc = "delete")
             /\ runs[i].pc = "done" => client'[i] = client[i]]_vars

\* the run i has stored its token and has not deleted it
InProgress(i) == runs[i].pc \in {"run", "clear", "delete"}

\* the request j looks its token up in this step
LooksUp(j) == cancels[j].pc = "lookup" /\ cancels'[j].pc = "done"

\* the runs are as they were, but for the context of the run i, if any,
\* which is cancelled
CancelsOnly(i) ==
    /\ Len(runs') = Len(runs)
    /\ \A k \in 1..Len(runs) :
          runs'[k] = IF k = i THEN [runs[k] EXCEPT !.ctx = "cancelled"]
                     ELSE runs[k]

\* what the request j does when it looks its token up: the token of a run
\* in progress cancels that run and no other and the request succeeds; any
\* other token cancels nothing and the request fails
CancelStep(j) ==
    LET owners == {i \in 1..Len(runs) :
                      runs[i].token = cancels[j].Token.val /\ InProgress(i)}
    IN  /\ inProgressMu = Holder("cancel", j)
        /\ IF owners = {}
           THEN cancels'[j].result = "error" /\ CancelsOnly(0)
           ELSE /\ cancels'[j].result = "nil"
                /\ \E i \in owners : CancelsOnly(i)

\* a request arrives in this step: it cancels nothing, and one whose token
\* is not a string has failed; one whose token is a string holds the mutex
Arrives ==
    /\ Len(cancels') = Len(cancels) + 1
    /\ LET c == cancels'[Len(cancels')] IN
          /\ runs' = runs
          /\ IF c.Token.isString
             THEN /\ c.pc = "lookup"
                  /\ inProgressMu' = Holder("cancel", Len(cancels'))
             ELSE c.pc = "done" /\ c.result = "error"

\* the map changes in this step only at the token of the run that holds
\* the mutex
WritesUnderMutex ==
    inProgress' # inProgress
    => \E i \in 1..Len(runs) :
          /\ inProgressMu = Holder("run", i)
          /\ \A t \in (DOMAIN inProgress \cup DOMAIN inProgress')
                      \ {runs[i].token} :
                /\ t \in DOMAIN inProgress /\ t \in DOMAIN inProgress'
                /\ inProgress'[t] = inProgress[t]

\* C30: however the runs and the requests interleave, a request for the
\* token of a run in progress calls the cancel function of that run and of
\* no other, a request for a token that is not a string, that no run has
\* stored or that its run has deleted fails and cancels nothing, and the
\* map is read and written only by the goroutine that holds the mutex
CancelsExactlyItsRun ==
    [][/\ \A j \in 1..Len(cancels) : LooksUp(j) => CancelStep(j)
       /\ Len(cancels') # Len(cancels) => Arrives
       /\ WritesUnderMutex]_vars

\* two runs are in progress and a request has cancelled the second: the
\* first goes on
CancelsExactlyItsRunWitness ==
    /\ Len(runs) = 2
    /\ InProgress(1) /\ InProgress(2)
    /\ runs[1].ctx = "live"
    /\ runs[2].ctx = "cancelled"
    /\ Len(cancels) = 1
    /\ cancels[1].hit = 2
    /\ cancels[1].result = "nil"

====
